---- MODULE Spec2Model ----
(***************************************************************************)
(* Field analytics and yield forecasting engine of Agritech-AI:            *)
(*   app/services/crop_yield_service.py            (CropYieldService)      *)
(*   app/services/precision_agriculture_service.py (PrecisionAgriculture-  *)
(*                                                  Service)               *)
(*                                                                         *)
(* Numbers.  The services compute with Python floats.  The model computes  *)
(* with exact rationals [n |-> numerator, d |-> denominator > 0] in lowest *)
(* terms.  A square root (np.std) is carried by its square: a value        *)
(* std = sqrt(var) is the rational var, and a comparison a > k*std with    *)
(* a >= 0 is decided as a*a > k*k*var.  Where IEEE-754 rounding changes    *)
(* the outcome of a comparison the code makes on the modelled inputs (the  *)
(* soil fertility mean against 0.8), the rounding direction is carried     *)
(* next to the exact value.                                                *)
(*                                                                         *)
(* Text.  A crop name is a sequence of one-character strings, so that      *)
(* str.lower() is modelled character by character.                         *)
(*                                                                         *)
(* Time.  The clock `now` counts days; a date is a day number.             *)
(***************************************************************************)
EXTENDS Integers, Sequences, FiniteSets, TLC

VARIABLES
    now,    \* the wall clock read by datetime.now() / datetime.utcnow()
    rs,     \* calls of _calculate_range_suitability on one optimal range
    cy,     \* the call of CropYieldService.predict_crop_yield in progress
    fm,     \* create_field_map: the last call, and the same call made again
    mon,    \* analyze_field_monitoring_data: the last call, and the same again
    ap,     \* plan_variable_rate_application: the last call
    yp,     \* generate_yield_prediction_map: the calls in progress, by caller
    fn,     \* a helper method called on its own: its name, arguments and result
    svc     \* the attributes of the two service objects, shared by all calls

vars == <<now, rs, cy, fm, mon, ap, yp, fn, svc>>
NotCy == <<now, rs, fm, mon, ap, yp, fn, svc>>
NotRs == <<now, cy, fm, mon, ap, yp, fn, svc>>
NotFm == <<now, rs, cy, mon, ap, yp, fn, svc>>
NotMon == <<now, rs, cy, fm, ap, yp, fn, svc>>
NotNow == <<rs, cy, fm, mon, ap, yp, fn, svc>>
NotAp == <<now, rs, cy, fm, mon, yp, fn, svc>>
NotYp == <<now, rs, cy, fm, mon, ap, fn, svc>>
NotFn == <<now, rs, cy, fm, mon, ap, yp, svc>>

----------------------------------------------------------------------------
(* Bounds of the model *)

MaxClock == 2          \* the clock runs over 0..MaxClock
MaxOptimal == 6        \* optimal ranges min, max drawn from 1..MaxOptimal
MaxFieldSize == 2      \* field sizes (hectares) 1..MaxFieldSize and 10
MaxVertices == 3       \* field boundaries of 0..MaxVertices vertices
MaxElevations == 3     \* elevation_data of 0..MaxElevations samples
MaxSoilSamples == 2    \* soil_samples of 0..MaxSoilSamples samples
MaxPoints == 3         \* data_points of 0..MaxPoints arbitrary readings
MaxOutliers == 5       \* clustered data_points with 0..MaxOutliers outliers
MaxReadings == 11      \* data_points of 2..MaxReadings readings, one of them apart
MaxZones == 3          \* field_zones of 0..MaxZones zones
MaxRates == 3          \* rate maps of 0..MaxRates entries
MaxPredictions == 3    \* zone predictions lists of 0..MaxPredictions entries

----------------------------------------------------------------------------
(* Exact rational arithmetic *)

Abs(x) == IF x < 0 THEN -x ELSE x

RECURSIVE GCD(_, _)
GCD(a, b) == IF b = 0 THEN a ELSE GCD(b, a % b)

\* n/d in lowest terms, d > 0
R(n, d) == LET g == GCD(Abs(n), d) IN [n |-> n \div g, d |-> d \div g]

Int2R(i) == [n |-> i, d |-> 1]
RAdd(x, y) ==
    LET g == GCD(x.d, y.d)
    IN  R(x.n * (y.d \div g) + y.n * (x.d \div g), (x.d \div g) * y.d)
RSub(x, y) == RAdd(x, [n |-> -y.n, d |-> y.d])
RMul(x, y) == LET a == R(x.n, y.d)
                  b == R(y.n, x.d)
              IN  [n |-> a.n * b.n, d |-> a.d * b.d]
RDiv(x, y) == IF y.n > 0 THEN RMul(x, [n |-> y.d, d |-> y.n])
                         ELSE RMul(x, [n |-> -y.d, d |-> -y.n])
\* x < y: by the integer parts, and by the fractional parts when those agree
RLt(x, y) ==
    LET fx == x.n \div x.d
        fy == y.n \div y.d
        g == GCD(x.d, y.d)
    IN  IF fx # fy THEN fx < fy
        ELSE (x.n - fx * x.d) * (y.d \div g) < (y.n - fy * y.d) * (x.d \div g)
RLe(x, y) == ~RLt(y, x)
RMax(x, y) == IF RLt(x, y) THEN y ELSE x
RMin(x, y) == IF RLt(y, x) THEN y ELSE x
RZero == [n |-> 0, d |-> 1]
ROne == [n |-> 1, d |-> 1]

----------------------------------------------------------------------------
(* Python dictionaries with optional keys: a function whose domain is the  *)
(* set of keys present.                                                    *)

EmptyDict == [k \in {} |-> 0]
Get(dict, key, default) == IF key \in DOMAIN dict THEN dict[key] ELSE default
Null == [null |-> TRUE]

\* `x.get(...)` for some element x of a list raises AttributeError: None has
\* no attribute get
get_raises(xs) == \E i \in DOMAIN xs : xs[i] = Null

----------------------------------------------------------------------------
(* CropYieldService *)

wheat == <<"w", "h", "e", "a", "t">>
rice == <<"r", "i", "c", "e">>
corn == <<"c", "o", "r", "n">>
soybeans == <<"s", "o", "y", "b", "e", "a", "n", "s">>
tomatoes == <<"t", "o", "m", "a", "t", "o", "e", "s">>

crop_parameters ==
    [c \in {wheat, rice, corn, soybeans, tomatoes} |->
        CASE c = wheat ->
               [optimal_temp_range |-> <<Int2R(15), Int2R(25)>>,
                optimal_humidity_range |-> <<Int2R(60), Int2R(80)>>,
                growing_days |-> 120,
                water_requirement |-> 450,
                base_yield_per_hectare |-> 3000,
                temp_sensitivity |-> R(8, 10),
                humidity_sensitivity |-> R(6, 10),
                soil_ph_optimal |-> <<R(60, 10), R(75, 10)>>]
          [] c = rice ->
               [optimal_temp_range |-> <<Int2R(20), Int2R(30)>>,
                optimal_humidity_range |-> <<Int2R(70), Int2R(90)>>,
                growing_days |-> 150,
                water_requirement |-> 1200,
                base_yield_per_hectare |-> 4000,
                temp_sensitivity |-> R(9, 10),
                humidity_sensitivity |-> R(8, 10),
                soil_ph_optimal |-> <<R(55, 10), R(70, 10)>>]
          [] c = corn ->
               [optimal_temp_range |-> <<Int2R(18), Int2R(27)>>,
                optimal_humidity_range |-> <<Int2R(65), Int2R(85)>>,
                growing_days |-> 100,
                water_requirement |-> 500,
                base_yield_per_hectare |-> 5000,
                temp_sensitivity |-> R(7, 10),
                humidity_sensitivity |-> R(5, 10),
                soil_ph_optimal |-> <<R(60, 10), R(70, 10)>>]
          [] c = soybeans ->
               [optimal_temp_range |-> <<Int2R(20), Int2R(30)>>,
                optimal_humidity_range |-> <<Int2R(60), Int2R(80)>>,
                growing_days |-> 110,
                water_requirement |-> 450,
                base_yield_per_hectare |-> 2500,
                temp_sensitivity |-> R(6, 10),
                humidity_sensitivity |-> R(7, 10),
                soil_ph_optimal |-> <<R(60, 10), R(75, 10)>>]
          [] c = tomatoes ->
               [optimal_temp_range |-> <<Int2R(18), Int2R(26)>>,
                optimal_humidity_range |-> <<Int2R(65), Int2R(85)>>,
                growing_days |-> 80,
                water_requirement |-> 400,
                base_yield_per_hectare |-> 40000,
                temp_sensitivity |-> R(9, 10),
                humidity_sensitivity |-> R(8, 10),
                soil_ph_optimal |-> <<R(60, 10), R(70, 10)>>]]

\* str.lower() on the ASCII letters
UpperCase == <<"A", "B", "C", "D", "E", "F", "G", "H", "I", "J", "K", "L", "M",
               "N", "O", "P", "Q", "R", "S", "T", "U", "V", "W", "X", "Y", "Z">>
LowerCase == <<"a", "b", "c", "d", "e", "f", "g", "h", "i", "j", "k", "l", "m",
               "n", "o", "p", "q", "r", "s", "t", "u", "v", "w", "x", "y", "z">>
LowerChar(ch) ==
    IF \E i \in DOMAIN UpperCase : UpperCase[i] = ch
    THEN LowerCase[CHOOSE i \in DOMAIN UpperCase : UpperCase[i] = ch]
    ELSE ch
lower(s) == [i \in DOMAIN s |-> LowerChar(s[i])]

\* A mutant of _calculate_range_suitability: the floor max(0.0, ...) is missing.
calculate_range_suitability_nofloor(value, min_optimal, max_optimal) ==
    IF RLe(min_optimal, value) /\ RLe(value, max_optimal)
    THEN ROne
    ELSE IF RLt(value, min_optimal)
         THEN RSub(ROne, RDiv(RSub(min_optimal, value), min_optimal))
         ELSE RSub(ROne, RDiv(RSub(value, max_optimal), max_optimal))

\* A mutant of _calculate_range_suitability: the operands of the distance
\* below the range are swapped (value - min_optimal).
calculate_range_suitability_swapped(value, min_optimal, max_optimal) ==
    IF RLe(min_optimal, value) /\ RLe(value, max_optimal)
    THEN ROne
    ELSE IF RLt(value, min_optimal)
         THEN RMax(RZero, RSub(ROne, RDiv(RSub(value, min_optimal), min_optimal)))
         ELSE RMax(RZero, RSub(ROne, RDiv(RSub(value, max_optimal), max_optimal)))

\* _calculate_range_suitability: 1.0 inside the optimal range, a linear
\* decrease outside it, floored at 0.  Python raises ZeroDivisionError for a
\* zero bound on the dividing side; every caller modelled here passes
\* positive bounds.
calculate_range_suitability(value, min_optimal, max_optimal) ==
    IF RLe(min_optimal, value) /\ RLe(value, max_optimal)
    THEN ROne
    ELSE IF RLt(value, min_optimal)
         THEN RMax(RZero, RSub(ROne, RDiv(RSub(min_optimal, value), min_optimal)))
         ELSE RMax(RZero, RSub(ROne, RDiv(RSub(value, max_optimal), max_optimal)))


\* The float value of (nitrogen_score + phosphorus_score + potassium_score) / 3
\* relative to the exact mean, where the exact mean is 0.8: in IEEE-754
\* doubles 0.6 + 0.8 = 1.4, 0.6 + 1.0 = 1.6, 0.8 + 0.8 = 1.6 and 0.8 + 1.0 =
\* 1.8 round to nearest, and adding the third score gives 2.4000000000000004
\* when that score is 0.8 and 2.4 (the double just below 2.4) otherwise, so
\* the quotient is 0.8000000000000002 or 0.7999999999999999.  1 = above,
\* -1 = below, 0 = the comparison with 0.8 is decided by the exact value.
fertility_rounding(nitrogen_score, phosphorus_score, potassium_score) ==
    IF RAdd(RAdd(nitrogen_score, phosphorus_score), potassium_score) # R(24, 10)
    THEN 0
    ELSE IF potassium_score = R(8, 10) THEN 1 ELSE -1

\* soil_fertility > 0.8 and soil_fertility < 0.8 as the doubles compare
FertilityGt08(sf) ==
    RLt(R(8, 10), sf.soil_fertility_score)
        \/ (sf.soil_fertility_score = R(8, 10) /\ sf.fertility_rounding = 1)
FertilityLt08(sf) ==
    RLt(sf.soil_fertility_score, R(8, 10))
        \/ (sf.soil_fertility_score = R(8, 10) /\ sf.fertility_rounding = -1)

\* _analyze_weather_factors, from the reply of weather_service.get_weather_data
analyze_weather_factors(avg_temp, avg_humidity, planting_date, harvest_date, crop_params) ==
    LET temp_suitability ==
            calculate_range_suitability(avg_temp,
                crop_params.optimal_temp_range[1], crop_params.optimal_temp_range[2])
        humidity_suitability ==
            calculate_range_suitability(avg_humidity,
                crop_params.optimal_humidity_range[1],
                crop_params.optimal_humidity_range[2])
    IN  [average_temperature |-> avg_temp,
         average_humidity |-> avg_humidity,
         temperature_suitability |-> temp_suitability,
         humidity_suitability |-> humidity_suitability,
         growing_days |-> harvest_date - planting_date,
         weather_stress_days |->
             RMax(RZero, RSub(Int2R(10), RMul(temp_suitability, Int2R(10)))),
         rainfall_adequacy |-> R(8, 10)]

\* A nutrient level that is a dict (what weather_service.get_soil_data
\* returns for every nutrient): dict.get raises TypeError on it.
Unhashable == "dict"

\* A mutant of the nutrient scores: a High level scores 1.2.
nutrient_scores_generous == [Low |-> R(6, 10), Medium |-> R(8, 10), High |-> R(12, 10)]
nutrient_scores == [Low |-> R(6, 10), Medium |-> R(8, 10), High |-> R(10, 10)]

\* _analyze_soil_factors after the soil data is at hand.  raises = TRUE when
\* nutrient_scores.get(level, 0.8) raises TypeError.
analyze_soil_factors(crop_params, soil_data) ==
    LET ph_level == Get(soil_data, "ph_level", R(65, 10))
        nutrients == Get(soil_data, "nutrients", EmptyDict)
        nitrogen == Get(nutrients, "nitrogen", "Medium")
        phosphorus == Get(nutrients, "phosphorus", "Medium")
        potassium == Get(nutrients, "potassium", "Medium")
        moisture == Get(soil_data, "moisture_content", 50)
        ph_suitability ==
            calculate_range_suitability(ph_level,
                crop_params.soil_ph_optimal[1], crop_params.soil_ph_optimal[2])
        nitrogen_score == Get(nutrient_scores, nitrogen, R(8, 10))
        phosphorus_score == Get(nutrient_scores, phosphorus, R(8, 10))
        potassium_score == Get(nutrient_scores, potassium, R(8, 10))
    IN  IF Unhashable \in {nitrogen, phosphorus, potassium}
        THEN [raises |-> TRUE]
        ELSE [raises |-> FALSE,
              ph_level |-> ph_level,
              ph_suitability |-> ph_suitability,
              nitrogen_level |-> nitrogen,
              phosphorus_level |-> phosphorus,
              potassium_level |-> potassium,
              moisture_content |-> moisture,
              soil_fertility_score |->
                  RDiv(RAdd(RAdd(nitrogen_score, phosphorus_score), potassium_score),
                       Int2R(3)),
              fertility_rounding |->
                  fertility_rounding(nitrogen_score, phosphorus_score, potassium_score),
              drainage_quality |-> R(8, 10),
              organic_matter_content |-> R(7, 10)]

\* A mutant of _calculate_weather_impact: the clamp is missing.
calculate_weather_impact_noclamp(weather_factors, crop_params) ==
    LET temp_impact ==
            RMul(weather_factors.temperature_suitability, crop_params.temp_sensitivity)
        humidity_impact ==
            RMul(weather_factors.humidity_suitability, crop_params.humidity_sensitivity)
        rainfall_impact == weather_factors.rainfall_adequacy
    IN  RAdd(RAdd(RMul(temp_impact, R(4, 10)), RMul(humidity_impact, R(3, 10))),
             RMul(rainfall_impact, R(3, 10)))

\* _calculate_weather_impact
calculate_weather_impact(weather_factors, crop_params) ==
    LET temp_impact ==
            RMul(weather_factors.temperature_suitability, crop_params.temp_sensitivity)
        humidity_impact ==
            RMul(weather_factors.humidity_suitability, crop_params.humidity_sensitivity)
        rainfall_impact == weather_factors.rainfall_adequacy
        weather_impact ==
            RAdd(RAdd(RMul(temp_impact, R(4, 10)), RMul(humidity_impact, R(3, 10))),
                 RMul(rainfall_impact, R(3, 10)))
    IN  RMax(R(3, 10), RMin(R(15, 10), weather_impact))

\* _calculate_soil_impact
calculate_soil_impact(soil_factors, crop_params) ==
    LET ph_impact == soil_factors.ph_suitability
        fertility_impact == soil_factors.soil_fertility_score
        drainage_impact == soil_factors.drainage_quality
        soil_impact ==
            RAdd(RAdd(RMul(ph_impact, R(3, 10)), RMul(fertility_impact, R(5, 10))),
                 RMul(drainage_impact, R(2, 10)))
    IN  RMax(R(4, 10), RMin(R(13, 10), soil_impact))

\* _calculate_confidence_score
calculate_confidence_score(weather_factors, soil_factors, crop_params) ==
    LET c1 == IF RLt(R(8, 10), weather_factors.temperature_suitability)
              THEN R(1, 10) ELSE RZero
        c2 == IF RLt(R(8, 10), soil_factors.ph_suitability) THEN R(1, 10) ELSE RZero
        c3 == IF FertilityGt08(soil_factors) THEN R(1, 10) ELSE RZero
        confidence == RAdd(RAdd(RAdd(R(7, 10), c1), c2), c3)
    IN  RMin(R(95, 100), confidence)

\* A mutant of _generate_yield_recommendations: the pH advice is given for
\* every pH outside the optimal range, whatever the suitability.
generate_yield_recommendations_anyph(weather_factors, soil_factors, crop_params) ==
    (IF RLt(weather_factors.temperature_suitability, R(7, 10))
     THEN <<"Consider using shade nets or greenhouse cultivation to optimize temperature">>
     ELSE <<>>)
    \o (IF RLt(weather_factors.humidity_suitability, R(7, 10))
        THEN <<"Implement proper irrigation and mulching to maintain optimal humidity">>
        ELSE <<>>)
    \o (IF RLt(soil_factors.ph_suitability, ROne)
        THEN IF RLt(soil_factors.ph_level, crop_params.soil_ph_optimal[1])
             THEN <<"Apply lime to increase soil pH for better nutrient availability">>
             ELSE <<"Apply sulfur or organic matter to decrease soil pH">>
        ELSE <<>>)
    \o (IF FertilityLt08(soil_factors)
        THEN <<"Apply balanced fertilizer to improve soil nutrient levels">>
        ELSE <<>>)
    \o <<"Monitor crop regularly for pests and diseases",
         "Ensure adequate water supply during critical growth stages",
         "Consider crop rotation to maintain soil health">>

\* _generate_yield_recommendations
generate_yield_recommendations(weather_factors, soil_factors, crop_params) ==
    (IF RLt(weather_factors.temperature_suitability, R(7, 10))
     THEN <<"Consider using shade nets or greenhouse cultivation to optimize temperature">>
     ELSE <<>>)
    \o (IF RLt(weather_factors.humidity_suitability, R(7, 10))
        THEN <<"Implement proper irrigation and mulching to maintain optimal humidity">>
        ELSE <<>>)
    \o (IF RLt(soil_factors.ph_suitability, R(7, 10))
        THEN IF RLt(soil_factors.ph_level, crop_params.soil_ph_optimal[1])
             THEN <<"Apply lime to increase soil pH for better nutrient availability">>
             ELSE <<"Apply sulfur or organic matter to decrease soil pH">>
        ELSE <<>>)
    \o (IF FertilityLt08(soil_factors)
        THEN <<"Apply balanced fertilizer to improve soil nutrient levels">>
        ELSE <<>>)
    \o <<"Monitor crop regularly for pests and diseases",
         "Ensure adequate water supply during critical growth stages",
         "Consider crop rotation to maintain soil health">>

\* round(x, 2): to the nearest hundredth, an exact tie to the even one
Round2(x) ==
    LET s == IF x.n < 0 THEN -1 ELSE 1
        whole == Abs(x.n) \div x.d
        frac == Abs(x.n) % x.d
        q == (frac * 100) \div x.d
        r == (frac * 100) % x.d
        up == 2 * r > x.d \/ (2 * r = x.d /\ q % 2 = 1)
    IN  R(s * (whole * 100 + (IF up THEN q + 1 ELSE q)), 100)

----------------------------------------------------------------------------
(* Inputs of predict_crop_yield and replies of the weather service *)

CropTypeInputs ==
    {corn, wheat, rice, soybeans, tomatoes,
     <<"C", "O", "R", "N">>, <<"W", "h", "e", "a", "t">>,
     <<"m", "a", "i", "z", "e">>, <<"s", "o", "y", "b", "e", "a", "n">>, <<>>}
FieldSizes == (0..MaxFieldSize) \cup {10}
PlantingDates == {0}
Temperatures == {Int2R(-5), Int2R(12), Int2R(22), Int2R(40), Int2R(70)}
Humidities == {Int2R(0), Int2R(70), Int2R(100)}
PhLevels == {R(0, 10), R(48, 10), R(65, 10), R(91, 10), R(140, 10)}
NutrientLevels == {"Low", "Medium", "High"}

\* soil_data as the caller passes it: None, {}, or a dict with some keys
SoilDataInputs ==
    {Null, EmptyDict}
    \cup {[ph_level |-> p] : p \in PhLevels}
    \cup {[nutrients |-> [nitrogen |-> "High", potassium |-> "adequate"]]}
    \cup {[ph_level |-> p,
           nutrients |-> [nitrogen |-> a, phosphorus |-> b, potassium |-> c]] :
             p \in {R(65, 10), R(91, 10)},
             a \in NutrientLevels, b \in NutrientLevels, c \in NutrientLevels}

\* what weather_service.get_soil_data returns (generated, cached or
\* fallback): every nutrient is a dict {"value": ..., "unit": ...}
SoilResponses ==
    {[ph_level |-> p, moisture_content |-> 50,
      nutrients |-> [nitrogen |-> Unhashable, phosphorus |-> Unhashable,
                     potassium |-> Unhashable]] : p \in {R(65, 10)}}

CyIdle ==
    [pc |-> "idle", crop_type |-> <<>>, field_size_hectares |-> 0,
     crop_params |-> Null, planting_date |-> 0, harvest_date |-> 0,
     soil_data |-> Null,
     weather_factors |-> Null, lookups |-> <<>>, error |-> "", result |-> Null]

\* `not soil_data`
Falsy(soil_data) == soil_data = Null \/ soil_data = EmptyDict

\* A mutant of the per-hectare figure: the total is reported undivided.
yield_per_hectare_total(predicted_yield, field_size_hectares) == predicted_yield

\* predicted_yield / field_size_hectares (line 140)
yield_per_hectare(predicted_yield, field_size_hectares) ==
    RDiv(predicted_yield, Int2R(field_size_hectares))

\* predict_crop_yield, lines 112-148, once both factor records are at hand
PredictFinish(c, weather_factors, soil_data, lookups) ==
    LET crop_params == c.crop_params
        soil_factors == analyze_soil_factors(crop_params, soil_data)
        base_yield == crop_params.base_yield_per_hectare * c.field_size_hectares
        weather_impact == calculate_weather_impact(weather_factors, crop_params)
        soil_impact == calculate_soil_impact(soil_factors, crop_params)
        predicted_yield ==
            RMul(RMul(Int2R(base_yield), weather_impact), soil_impact)
        confidence_score ==
            calculate_confidence_score(weather_factors, soil_factors, crop_params)
        recommendations ==
            generate_yield_recommendations(weather_factors, soil_factors, crop_params)
    IN  IF soil_factors.raises
        THEN [c EXCEPT !.pc = "raised", !.error = "TypeError",
                       !.weather_factors = weather_factors, !.lookups = lookups]
        ELSE IF c.field_size_hectares = 0
        THEN [c EXCEPT !.pc = "raised", !.error = "ZeroDivisionError",
                       !.weather_factors = weather_factors, !.lookups = lookups]
        ELSE [c EXCEPT
                !.pc = "returned",
                !.weather_factors = weather_factors,
                !.lookups = lookups,
                !.result =
                    [crop_type |-> c.crop_type,
                     field_size_hectares |-> c.field_size_hectares,
                     planting_date |-> c.planting_date,
                     expected_harvest_date |-> c.harvest_date,
                     predicted_yield_kg |-> Round2(predicted_yield),
                     predicted_yield_per_hectare |->
                         Round2(yield_per_hectare(predicted_yield,
                                                  c.field_size_hectares)),
                     confidence_score |-> Round2(confidence_score),
                     weather_impact_factor |-> Round2(weather_impact),
                     soil_impact_factor |-> Round2(soil_impact),
                     weather_factors |-> weather_factors,
                     soil_factors |-> soil_factors,
                     recommendations |-> recommendations,
                     analysis_date |-> now]]

\* A mutant of the crop lookup: an unknown crop gets the parameters of wheat
\* (a dict.get with a default) instead of the ValueError.
crop_lookup_default(crop_type) ==
    [raises |-> FALSE,
     crop_params |-> svc.crop_parameters[IF crop_type \in DOMAIN svc.crop_parameters
                                         THEN crop_type ELSE wheat]]

\* lines 94-97: `if crop_type not in self.crop_parameters: raise ValueError`
crop_lookup(crop_type) ==
    IF crop_type \notin DOMAIN svc.crop_parameters
    THEN [raises |-> TRUE]
    ELSE [raises |-> FALSE, crop_params |-> svc.crop_parameters[crop_type]]

\* predict_crop_yield up to its first await (lines 92-105): the crop type is
\* lower-cased and looked up; an unknown crop raises ValueError, which the
\* except clause logs and re-raises.
PredictCall(crop_type, field_size_hectares, planting_date, soil_data) ==
    /\ cy.pc = "idle"
    /\ LET ct == lower(crop_type)
           found == crop_lookup(ct)
           c == [CyIdle EXCEPT !.crop_type = ct,
                               !.field_size_hectares = field_size_hectares,
                               !.planting_date = planting_date,
                               !.soil_data = soil_data]
       IN  IF found.raises
           THEN cy' = [c EXCEPT !.pc = "raised", !.error = "ValueError"]
           ELSE cy' = [c EXCEPT !.pc = "await_weather",
                                !.crop_params = found.crop_params,
                                !.harvest_date =
                                    planting_date + found.crop_params.growing_days]
    /\ UNCHANGED NotCy

\* weather_service.get_weather_data replies; _analyze_weather_factors ends
\* and _analyze_soil_factors starts (lines 165-206): with soil data passed
\* in the call runs to its end, without it the soil lookup is awaited.
WeatherReturns(avg_temp, avg_humidity) ==
    /\ cy.pc = "await_weather"
    /\ LET weather_factors ==
               analyze_weather_factors(avg_temp, avg_humidity, cy.planting_date,
                   cy.harvest_date, cy.crop_params)
           lookups == Append(cy.lookups, "weather")
       IN  IF Falsy(cy.soil_data)
           THEN cy' = [cy EXCEPT !.pc = "await_soil",
                                 !.weather_factors = weather_factors,
                                 !.lookups = lookups]
           ELSE cy' = PredictFinish(cy, weather_factors, cy.soil_data, lookups)
    /\ UNCHANGED NotCy

\* weather_service.get_soil_data replies (lines 205-245, then 112-148)
SoilReturns(soil_response) ==
    /\ cy.pc = "await_soil"
    /\ cy' = PredictFinish(cy, cy.weather_factors, soil_response,
                           Append(cy.lookups, "soil"))
    /\ UNCHANGED NotCy

\* time passes
Tick ==
    /\ now < MaxClock
    /\ now' = now + 1
    /\ UNCHANGED NotNow

----------------------------------------------------------------------------
(* _calculate_range_suitability on its own: one optimal range, the last     *)
(* two calls.  Integer arguments stand for any arguments with a common      *)
(* denominator: the function is invariant under scaling all three.          *)

RangeBounds == (1..MaxOptimal) \cup {15, 25}
RangeValues == (-2..(2 * MaxOptimal + 1)) \cup {14, 15, 20, 25, 26, 50, 51}

RsInit == rs \in [min_optimal : RangeBounds, max_optimal : RangeBounds, calls : {<<>>}]

RangeSuitability(value) ==
    /\ rs' = [rs EXCEPT !.calls =
                 LET call == [value |-> value,
                              result |-> calculate_range_suitability(
                                  Int2R(value), Int2R(rs.min_optimal),
                                  Int2R(rs.max_optimal))]
                 IN  IF Len(rs.calls) < 2 THEN Append(rs.calls, call)
                                          ELSE <<rs.calls[2], call>>]
    /\ UNCHANGED NotRs

----------------------------------------------------------------------------
(* Statistics over sequences of rationals (sum, min, max, np.mean, np.var,  *)
(* np.percentile, np.median)                                                *)

\* sum, min and max of xs[lo..hi], by halves (exact arithmetic: the order of
\* the additions does not matter)
RECURSIVE RSumRange(_, _, _)
RSumRange(xs, lo, hi) ==
    IF lo > hi THEN RZero
    ELSE IF lo = hi THEN xs[lo]
    ELSE LET mid == (lo + hi) \div 2
         IN  RAdd(RSumRange(xs, lo, mid), RSumRange(xs, mid + 1, hi))
RSum(xs) == RSumRange(xs, 1, Len(xs))

RECURSIVE RMinRange(_, _, _)
RMinRange(xs, lo, hi) ==
    IF lo = hi THEN xs[lo]
    ELSE LET mid == (lo + hi) \div 2
         IN  RMin(RMinRange(xs, lo, mid), RMinRange(xs, mid + 1, hi))
RMinSeq(xs) == RMinRange(xs, 1, Len(xs))

RECURSIVE RMaxRange(_, _, _)
RMaxRange(xs, lo, hi) ==
    IF lo = hi THEN xs[lo]
    ELSE LET mid == (lo + hi) \div 2
         IN  RMax(RMaxRange(xs, lo, mid), RMaxRange(xs, mid + 1, hi))
RMaxSeq(xs) == RMaxRange(xs, 1, Len(xs))

RAbs(x) == [n |-> Abs(x.n), d |-> x.d]
RSq(x) == RMul(x, x)

\* np.mean
Mean(xs) == RDiv(RSum(xs), Int2R(Len(xs)))

\* np.var: the mean of the squared deviations from the mean (ddof = 0);
\* np.std is its square root
Var(xs) ==
    LET m == Mean(xs)
    IN  Mean([i \in DOMAIN xs |-> RSq(RSub(xs[i], m))])

\* np.percentile(xs, q), linear interpolation between the closest ranks
Percentile(xs, q) ==
    LET sorted == SortSeq(xs, RLt)
        pos == (Len(xs) - 1) * q
        lo == pos \div 100 + 1
        hi == IF lo < Len(xs) THEN lo + 1 ELSE lo
    IN  RAdd(sorted[lo], RMul(R(pos % 100, 100), RSub(sorted[hi], sorted[lo])))

\* len([x for x in xs if P(x)])
Count(xs, P(_)) == Cardinality({i \in DOMAIN xs : P(xs[i])})

\* [x for x in xs if P(x)]
\* the elements of xs[lo..hi] whose keep flag is set, in order
RECURSIVE Select(_, _, _, _)
Select(xs, keep, lo, hi) ==
    IF lo > hi THEN <<>>
    ELSE IF lo = hi THEN (IF keep[lo] THEN <<xs[lo]>> ELSE <<>>)
    ELSE LET mid == (lo + hi) \div 2
         IN  Select(xs, keep, lo, mid) \o Select(xs, keep, mid + 1, hi)
Filter(xs, P(_)) ==
    Select(xs, [i \in DOMAIN xs |-> P(xs[i])], 1, Len(xs))

----------------------------------------------------------------------------
(* PrecisionAgricultureService: field map *)

\* math.cos(math.radians(lat)) for the latitudes of the modelled vertices
\* (the whole degrees with a rational cosine)
cos_radians(lat) ==
    CASE lat = 0 -> ROne
      [] lat = 60 -> R(1, 2)
      [] lat = -60 -> R(1, 2)
      [] lat = 90 -> RZero

\* _calculate_field_area.  The shoelace sum over x = lng * 111320 * cos(lat),
\* y = lat * 110540, halved and divided by 10000; the result is given in
\* units of 111320 * 110540 / 10000 hectares (the constant factor of every
\* term is taken out of the sum).
RECURSIVE ShoelaceSum(_, _)
ShoelaceSum(boundaries, i) ==
    IF i > Len(boundaries) THEN RZero
    ELSE LET j == (i % Len(boundaries)) + 1
             lat1 == boundaries[i][1]
             lng1 == boundaries[i][2]
             lat2 == boundaries[j][1]
             lng2 == boundaries[j][2]
             x1 == RMul(Int2R(lng1), cos_radians(lat1))
             y1 == Int2R(lat1)
             x2 == RMul(Int2R(lng2), cos_radians(lat2))
             y2 == Int2R(lat2)
         IN  RAdd(RSub(RMul(x1, y2), RMul(x2, y1)), ShoelaceSum(boundaries, i + 1))

\* `lat1, lng1 = boundaries[i]` raises ValueError for a vertex that is not a
\* pair; the loop runs only for 3 vertices or more
field_area_raises(boundaries) ==
    Len(boundaries) >= 3 /\ \E i \in DOMAIN boundaries : Len(boundaries[i]) # 2

calculate_field_area(boundaries) ==
    IF Len(boundaries) < 3
    THEN RZero
    ELSE RDiv(RAbs(ShoelaceSum(boundaries, 1)), Int2R(2))

\* [point.get("elevation", 0) for point in elevation_data]
Elevations(elevation_data) ==
    [i \in DOMAIN elevation_data |-> Get(elevation_data[i], "elevation", RZero)]

\* `if xs:` for a list
Truthy(xs) == xs # <<>>

UniformZone ==
    [zone_id |-> "uniform",
     name |-> "Uniform Management Zone",
     characteristics |-> <<"standard_conditions">>,
     management_recommendations |-> <<"standard_practices">>]

FourZones(elevations) ==
    LET q1 == Percentile(elevations, 25)
        q2 == Percentile(elevations, 50)
        q3 == Percentile(elevations, 75)
    IN  <<[zone_id |-> "low_elevation",
           name |-> "Low Elevation Zone",
           elevation_range |-> <<RMinSeq(elevations), q1>>,
           characteristics |-> <<"good_drainage", "lower_water_retention">>,
           management_recommendations |-> <<"increased_irrigation", "nitrogen_management">>],
          [zone_id |-> "medium_low_elevation",
           name |-> "Medium-Low Elevation Zone",
           elevation_range |-> <<q1, q2>>,
           characteristics |-> <<"moderate_drainage", "medium_water_retention">>,
           management_recommendations |-> <<"balanced_fertilization", "standard_practices">>],
          [zone_id |-> "medium_high_elevation",
           name |-> "Medium-High Elevation Zone",
           elevation_range |-> <<q2, q3>>,
           characteristics |-> <<"moderate_drainage", "good_water_retention">>,
           management_recommendations |-> <<"phosphorus_focus", "erosion_control">>],
          [zone_id |-> "high_elevation",
           name |-> "High Elevation Zone",
           elevation_range |-> <<q3, RMaxSeq(elevations)>>,
           characteristics |-> <<"poor_drainage", "high_water_retention">>,
           management_recommendations |-> <<"drainage_improvement", "reduced_irrigation">>]>>

\* A mutant of _generate_management_zones: `or` for `and` in line 250.
generate_management_zones_or(boundaries, elevation_data, soil_samples) ==
    IF Truthy(elevation_data) \/ Truthy(soil_samples)
    THEN IF Truthy(elevation_data)
         THEN FourZones(Elevations(elevation_data))
         ELSE <<>>
    ELSE <<UniformZone>>

\* _generate_management_zones
generate_management_zones(boundaries, elevation_data, soil_samples) ==
    IF Truthy(elevation_data) /\ Truthy(soil_samples)
    THEN LET elevations == Elevations(elevation_data)
         IN  IF elevations # <<>> THEN FourZones(elevations) ELSE <<>>
    ELSE <<UniformZone>>

\* _identify_low_areas
\* A mutant of _identify_low_areas: elevations strictly below the threshold.
identify_low_areas_strict(elevation_data) ==
    IF ~Truthy(elevation_data) THEN <<>>
    ELSE LET elevations == Elevations(elevation_data)
             threshold == Percentile(elevations, 25)
             Low(point) == RLt(Get(point, "elevation", RZero), threshold)
             low == Filter(elevation_data, Low)
         IN  [i \in DOMAIN low |->
                [location |-> Get(low[i], "location", <<0, 0>>),
                 elevation |-> Get(low[i], "elevation", RZero),
                 risk_level |->
                     IF RLe(Get(low[i], "elevation", RZero), Percentile(elevations, 10))
                     THEN "high" ELSE "medium"]]

\* _identify_low_areas
identify_low_areas(elevation_data) ==
    IF ~Truthy(elevation_data) THEN <<>>
    ELSE LET elevations == Elevations(elevation_data)
             threshold == Percentile(elevations, 25)
             Low(point) == RLe(Get(point, "elevation", RZero), threshold)
             low == Filter(elevation_data, Low)
         IN  [i \in DOMAIN low |->
                [location |-> Get(low[i], "location", <<0, 0>>),
                 elevation |-> Get(low[i], "elevation", RZero),
                 risk_level |->
                     IF RLe(Get(low[i], "elevation", RZero), Percentile(elevations, 10))
                     THEN "high" ELSE "medium"]]

\* _identify_steep_areas
identify_steep_areas(elevation_data) ==
    IF ~Truthy(elevation_data) THEN <<>>
    ELSE LET elevations == Elevations(elevation_data)
             threshold == Percentile(elevations, 75)
             Steep(point) == RLe(threshold, Get(point, "elevation", RZero))
             steep == Filter(elevation_data, Steep)
         IN  [i \in DOMAIN steep |->
                [location |-> Get(steep[i], "location", <<0, 0>>),
                 elevation |-> Get(steep[i], "elevation", RZero),
                 erosion_risk |->
                     IF RLe(Percentile(elevations, 90), Get(steep[i], "elevation", RZero))
                     THEN "high" ELSE "medium"]]

\* _analyze_drainage_patterns
analyze_drainage_patterns(boundaries, elevation_data) ==
    IF ~Truthy(elevation_data)
    THEN [status |-> "no_elevation_data", patterns |-> <<>>]
    ELSE LET elevations == Elevations(elevation_data)
             spread == RSub(RMaxSeq(elevations), RMinSeq(elevations))
         IN  [overall_slope |-> RDiv(spread, Int2R(Len(elevations))),
              drainage_quality |-> IF RLt(Int2R(5), spread) THEN "good" ELSE "poor",
              water_accumulation_areas |-> identify_low_areas(elevation_data),
              erosion_risk_areas |-> identify_steep_areas(elevation_data),
              recommendations |->
                  <<"Install drainage tiles in low areas",
                    "Implement contour farming on slopes",
                    "Consider terracing for steep areas">>]

\* _get_soil_management_recommendations
get_soil_management_recommendations(soil_sample) ==
    LET ph == Get(soil_sample, "ph", R(65, 10))
        organic_matter == Get(soil_sample, "organic_matter", Int2R(3))
        nitrogen == Get(soil_sample, "nitrogen", Int2R(20))
    IN  (IF RLt(ph, Int2R(6)) THEN <<"Apply lime to raise pH">>
         ELSE IF RLt(R(75, 10), ph) THEN <<"Apply sulfur to lower pH">>
         ELSE <<>>)
        \o (IF RLt(organic_matter, Int2R(2))
            THEN <<"Increase organic matter with cover crops or compost">>
            ELSE <<>>)
        \o (IF RLt(nitrogen, Int2R(15)) THEN <<"Apply nitrogen fertilizer">> ELSE <<>>)

\* A mutant of _create_soil_zones: no default zone for an empty sample list.
create_soil_zones_nodefault(soil_samples, boundaries) ==
    IF ~Truthy(soil_samples) THEN <<>>
    ELSE [i \in DOMAIN soil_samples |-> [zone_id |-> <<"soil_zone_", i>>]]

\* _create_soil_zones
create_soil_zones(soil_samples, boundaries) ==
    IF ~Truthy(soil_samples)
    THEN <<[zone |-> "default", soil_type |-> "unknown", management |-> "standard"]>>
    ELSE [i \in DOMAIN soil_samples |->
            LET sample == soil_samples[i]
            IN  [zone_id |-> <<"soil_zone_", i>>,
                 location |-> Get(sample, "location", <<0, 0>>),
                 soil_type |-> Get(sample, "soil_type", "loamy"),
                 ph_level |-> Get(sample, "ph", R(65, 10)),
                 organic_matter |-> Get(sample, "organic_matter", Int2R(3)),
                 nutrients |->
                     [nitrogen |-> Get(sample, "nitrogen", Int2R(20)),
                      phosphorus |-> Get(sample, "phosphorus", Int2R(15)),
                      potassium |-> Get(sample, "potassium", Int2R(150))],
                 management_recommendations |->
                     get_soil_management_recommendations(sample)]]

\* _analyze_elevation
analyze_elevation(elevation_data) ==
    IF ~Truthy(elevation_data)
    THEN [status |-> "no_data"]
    ELSE LET elevations == Elevations(elevation_data)
             m == Mean(elevations)
             Gentle(e) == RLt(RAbs(RSub(e, m)), Int2R(2))
             Moderate(e) == RLe(Int2R(2), RAbs(RSub(e, m))) /\ RLt(RAbs(RSub(e, m)), Int2R(5))
             Steep(e) == RLe(Int2R(5), RAbs(RSub(e, m)))
         IN  [min_elevation |-> RMinSeq(elevations),
              max_elevation |-> RMaxSeq(elevations),
              average_elevation |-> RDiv(RSum(elevations), Int2R(Len(elevations))),
              elevation_variance |-> Var(elevations),
              slope_analysis |->
                  [gentle_slopes |-> Count(elevations, Gentle),
                   moderate_slopes |-> Count(elevations, Moderate),
                   steep_slopes |-> Count(elevations, Steep)]]

\* _generate_field_recommendations
generate_field_recommendations(management_zones, soil_zones, drainage_patterns) ==
    LET avg_ph ==
            RDiv(RSum([i \in DOMAIN soil_zones |->
                          Get(soil_zones[i], "ph_level", R(65, 10))]),
                 Int2R(Len(soil_zones)))
    IN  (IF Len(management_zones) > 1
         THEN <<"Implement zone-specific management practices",
                "Use variable rate application for fertilizers">>
         ELSE <<>>)
        \o (IF Get(drainage_patterns, "drainage_quality", "") = "poor"
            THEN <<"Install drainage systems in low-lying areas",
                   "Consider raised beds for better drainage">>
            ELSE <<>>)
        \o (IF soil_zones = <<>> THEN <<>>
            ELSE IF RLt(avg_ph, Int2R(6)) THEN <<"Apply lime to increase soil pH">>
            ELSE IF RLt(R(75, 10), avg_ph) THEN <<"Apply sulfur to decrease soil pH">>
            ELSE <<>>)
        \o <<"Monitor crop health regularly using NDVI imagery",
             "Implement precision irrigation based on soil moisture",
             "Use GPS-guided equipment for accurate applications",
             "Keep detailed records of all field operations">>

\* create_field_map: the record it returns for field_data at time `at`.
\* An exception of _calculate_field_area is turned into the error record by
\* the except clause.
create_field_map(field_data, at) ==
    LET field_boundaries == Get(field_data, "boundaries", <<>>)
        elevation_data == Get(field_data, "elevation_data", <<>>)
        soil_samples == Get(field_data, "soil_samples", <<>>)
        area_hectares == calculate_field_area(field_boundaries)
        management_zones ==
            generate_management_zones(field_boundaries, elevation_data, soil_samples)
        drainage_patterns == analyze_drainage_patterns(field_boundaries, elevation_data)
        soil_zones == create_soil_zones(soil_samples, field_boundaries)
    IN  IF field_area_raises(field_boundaries)
        THEN [error |-> "Failed to create field map: ValueError"]
        ELSE [field_map |->
                 [boundaries |-> field_boundaries,
                  area_hectares |-> area_hectares,
                  management_zones |-> management_zones,
                  soil_zones |-> soil_zones,
                  drainage_patterns |-> drainage_patterns,
                  elevation_analysis |-> analyze_elevation(elevation_data),
                  created_at |-> at],
              recommendations |->
                  generate_field_recommendations(management_zones, soil_zones,
                                                 drainage_patterns)]

----------------------------------------------------------------------------
(* Numbers with a square root: [a, b, c] is a + b * sqrt(c), c >= 0.  The   *)
(* same computation on the same inputs gives the same triple; two triples  *)
(* are compared as numbers with SurdSign.                                  *)

Surd(a, b, c) ==
    IF b = RZero \/ c = RZero THEN [a |-> a, b |-> RZero, c |-> RZero]
                              ELSE [a |-> a, b |-> b, c |-> c]

Sign(x) == IF x.n > 0 THEN 1 ELSE IF x.n < 0 THEN -1 ELSE 0

\* the sign of (a + b * sqrt(c)) - t
SurdSign(s, t) ==
    LET u == RSub(t, s.a)
        \* b * sqrt(c) - u = b * (sqrt(c) - q)
        q == RDiv(u, s.b)
        root_minus_q == IF q.n < 0 THEN 1 ELSE Sign(RSub(s.c, RSq(q)))
    IN  IF s.b.n = 0 THEN Sign(RSub(s.a, t))
        ELSE IF s.b.n > 0 THEN root_minus_q
        ELSE -root_minus_q
SurdGt(s, t) == SurdSign(s, t) = 1
SurdLt(s, t) == SurdSign(s, t) = -1

\* np.std
Std(xs) == Surd(RZero, ROne, Var(xs))

\* x > k * std and x < -k * std, for std = sqrt(var) and k >= 0
\* A mutant of the comparison with k standard deviations: >= instead of >.
GtStd_atleast(x, k, var) == x.n >= 0 /\ RLe(RMul(Int2R(k * k), var), RSq(x))
GtStd(x, k, var) == x.n > 0 /\ RLt(RMul(Int2R(k * k), var), RSq(x))
LtMinusStd(x, k, var) == x.n < 0 /\ RLt(RMul(Int2R(k * k), var), RSq(x))

----------------------------------------------------------------------------
(* PrecisionAgricultureService: monitoring analysis *)

ndvi_thresholds ==
    [poor |-> R(3, 10), fair |-> R(5, 10), good |-> R(7, 10), excellent |-> R(9, 10)]

\* self.soil_zones
soil_zones_table ==
    [sandy |-> [drainage |-> "excellent", water_holding |-> "low",
                nutrient_retention |-> "low"],
     loamy |-> [drainage |-> "good", water_holding |-> "medium",
                nutrient_retention |-> "high"],
     clay |-> [drainage |-> "poor", water_holding |-> "high",
               nutrient_retention |-> "high"],
     silty |-> [drainage |-> "fair", water_holding |-> "medium",
                nutrient_retention |-> "medium"]]

\* the attributes the two constructors set
ServiceTables ==
    [ndvi_thresholds |-> ndvi_thresholds,
     soil_zones |-> soil_zones_table,
     crop_parameters |-> crop_parameters]

\* [point.get("value", 0) for point in data_points]
Values(data_points) ==
    [i \in DOMAIN data_points |-> Get(data_points[i], "value", RZero)]

\* _calculate_health_score
calculate_health_score(ndvi_values) ==
    IF ndvi_values = <<>> THEN RZero
    ELSE RMin(Int2R(100),
              RMul(RDiv(RSum(ndvi_values), Int2R(Len(ndvi_values))), Int2R(125)))

\* _identify_stress_areas
identify_stress_areas(data_points) ==
    LET Stressed(point) == RLt(Get(point, "value", RZero), svc.ndvi_thresholds.poor)
        stressed == Filter(data_points, Stressed)
    IN  [i \in DOMAIN stressed |->
            [location |-> Get(stressed[i], "location", <<0, 0>>),
             ndvi_value |-> Get(stressed[i], "value", RZero),
             stress_level |->
                 IF RLt(Get(stressed[i], "value", RZero), R(2, 10))
                 THEN "severe" ELSE "moderate",
             possible_causes |->
                 <<"drought", "disease", "nutrient_deficiency", "pest_damage">>]]

\* _get_uniformity_recommendations
get_uniformity_recommendations(uniformity_score) ==
    IF SurdGt(uniformity_score, Int2R(80))
    THEN <<"Maintain current management practices", "Continue monitoring">>
    ELSE IF SurdGt(uniformity_score, Int2R(60))
    THEN <<"Minor adjustments to management zones", "Monitor variable areas closely">>
    ELSE IF SurdGt(uniformity_score, Int2R(40))
    THEN <<"Implement variable rate applications", "Investigate causes of variability">>
    ELSE <<"Major management zone revision needed",
           "Detailed soil and plant tissue testing", "Consider field renovation">>

\* _assess_growth_uniformity
assess_growth_uniformity(ndvi_values) ==
    IF ndvi_values = <<>> THEN [status |-> "no_data"]
    ELSE LET m == Mean(ndvi_values)
             var == Var(ndvi_values)
             \* cv = std_dev / mean if mean > 0 else 0
             cv == IF m.n > 0 THEN Surd(RZero, RDiv(ROne, m), var)
                              ELSE Surd(RZero, RZero, RZero)
             \* max(0, 100 - cv * 100)
             raw == Surd(Int2R(100), RMul(Int2R(-100), cv.b), cv.c)
             uniformity_score ==
                 IF SurdLt(raw, RZero) THEN Surd(RZero, RZero, RZero) ELSE raw
         IN  [uniformity_score |-> uniformity_score,
              coefficient_of_variation |-> cv,
              assessment |->
                  IF SurdGt(uniformity_score, Int2R(80)) THEN "excellent"
                  ELSE IF SurdGt(uniformity_score, Int2R(60)) THEN "good"
                  ELSE IF SurdGt(uniformity_score, Int2R(40)) THEN "fair"
                  ELSE "poor",
              recommendations |-> get_uniformity_recommendations(uniformity_score)]

\* _analyze_ndvi_data
analyze_ndvi_data(data_points, boundaries) ==
    IF data_points = <<>> THEN [status |-> "no_data"]
    ELSE LET ndvi_values == Values(data_points)
             Poor(v) == RLt(v, svc.ndvi_thresholds.poor)
             Fair(v) == RLe(svc.ndvi_thresholds.poor, v) /\ RLt(v, svc.ndvi_thresholds.fair)
             Good(v) == RLe(svc.ndvi_thresholds.fair, v) /\ RLt(v, svc.ndvi_thresholds.good)
             Excellent(v) == RLe(svc.ndvi_thresholds.good, v)
         IN  [average_ndvi |-> RDiv(RSum(ndvi_values), Int2R(Len(ndvi_values))),
              ndvi_distribution |->
                  [poor |-> Count(ndvi_values, Poor),
                   fair |-> Count(ndvi_values, Fair),
                   good |-> Count(ndvi_values, Good),
                   excellent |-> Count(ndvi_values, Excellent)],
              field_health_score |-> calculate_health_score(ndvi_values),
              stress_indicators |-> identify_stress_areas(data_points),
              growth_uniformity |-> assess_growth_uniformity(ndvi_values)]

\* _generate_irrigation_recommendations
generate_irrigation_recommendations(moisture_values) ==
    LET avg_moisture == RDiv(RSum(moisture_values), Int2R(Len(moisture_values)))
        Dry(v) == RLt(v, Int2R(20))
        dry_areas == Count(moisture_values, Dry)
    IN  (IF RLt(avg_moisture, Int2R(20))
         THEN <<"Immediate irrigation required", "Increase irrigation frequency">>
         ELSE IF RLt(avg_moisture, Int2R(40))
         THEN <<"Schedule irrigation within 2-3 days">>
         ELSE IF RLt(Int2R(80), avg_moisture)
         THEN <<"Reduce irrigation frequency", "Check drainage systems">>
         ELSE <<>>)
        \o (IF RLt(RMul(Int2R(Len(moisture_values)), R(3, 10)), Int2R(dry_areas))
            THEN <<"Consider variable rate irrigation">>
            ELSE <<>>)

\* _analyze_soil_moisture_data
analyze_soil_moisture_data(data_points, boundaries) ==
    IF data_points = <<>> THEN [status |-> "no_data"]
    ELSE LET moisture_values == Values(data_points)
             Dry(v) == RLt(v, Int2R(20))
             Optimal(v) == RLe(Int2R(20), v) /\ RLe(v, Int2R(80))
             Wet(v) == RLt(Int2R(80), v)
         IN  [average_moisture |->
                  RDiv(RSum(moisture_values), Int2R(Len(moisture_values))),
              moisture_variability |-> Var(moisture_values),
              dry_areas |-> Count(moisture_values, Dry),
              optimal_areas |-> Count(moisture_values, Optimal),
              wet_areas |-> Count(moisture_values, Wet),
              irrigation_recommendations |->
                  generate_irrigation_recommendations(moisture_values)]

\* _generate_thermal_recommendations
generate_thermal_recommendations(temp_values) ==
    LET avg_temp == RDiv(RSum(temp_values), Int2R(Len(temp_values)))
        Hot(v) == RLt(Int2R(35), v)
        Cold(v) == RLt(v, Int2R(10))
    IN  (IF RLt(Int2R(30), avg_temp)
         THEN <<"Monitor for heat stress symptoms", "Ensure adequate irrigation">>
         ELSE <<>>)
        \o (IF Count(temp_values, Hot) > 0
            THEN <<"Implement heat stress mitigation in hot spots",
                   "Consider shade structures or cooling systems">>
            ELSE <<>>)
        \o (IF Count(temp_values, Cold) > 0
            THEN <<"Monitor for cold stress in low temperature areas",
                   "Consider frost protection measures">>
            ELSE <<>>)

\* A mutant of _analyze_temperature_data: the optimal areas are those from
\* 10 to 35 degrees.
analyze_temperature_data_wide(data_points, boundaries) ==
    IF data_points = <<>> THEN [status |-> "no_data"]
    ELSE LET temp_values == Values(data_points)
             Hot(v) == RLt(Int2R(35), v)
             Cold(v) == RLt(v, Int2R(10))
             Optimal(v) == RLe(Int2R(10), v) /\ RLe(v, Int2R(35))
         IN  [average_temperature |-> RDiv(RSum(temp_values), Int2R(Len(temp_values))),
              temperature_range |-> RSub(RMaxSeq(temp_values), RMinSeq(temp_values)),
              heat_stress_areas |-> Count(temp_values, Hot),
              cold_stress_areas |-> Count(temp_values, Cold),
              optimal_areas |-> Count(temp_values, Optimal),
              thermal_recommendations |-> generate_thermal_recommendations(temp_values)]

\* _analyze_temperature_data
analyze_temperature_data(data_points, boundaries) ==
    IF data_points = <<>> THEN [status |-> "no_data"]
    ELSE LET temp_values == Values(data_points)
             Hot(v) == RLt(Int2R(35), v)
             Cold(v) == RLt(v, Int2R(10))
             Optimal(v) == RLe(Int2R(15), v) /\ RLe(v, Int2R(30))
         IN  [average_temperature |-> RDiv(RSum(temp_values), Int2R(Len(temp_values))),
              temperature_range |-> RSub(RMaxSeq(temp_values), RMinSeq(temp_values)),
              heat_stress_areas |-> Count(temp_values, Hot),
              cold_stress_areas |-> Count(temp_values, Cold),
              optimal_areas |-> Count(temp_values, Optimal),
              thermal_recommendations |-> generate_thermal_recommendations(temp_values)]

\* _generate_growth_stage_recommendations
generate_growth_stage_recommendations(stages) ==
    LET avg_stage == RDiv(RSum(stages), Int2R(Len(stages)))
        var == Var(stages)
        Advanced(st) == GtStd(RSub(st, avg_stage), 1, var)
        Delayed(st) == LtMinusStd(RSub(st, avg_stage), 1, var)
    IN  (IF RLt(ROne, var)
         THEN <<"Address growth variability with targeted management",
                "Investigate causes of uneven development">>
         ELSE <<>>)
        \o (IF Count(stages, Advanced) > 0
            THEN <<"Monitor advanced areas for early maturity">>
            ELSE <<>>)
        \o (IF Count(stages, Delayed) > 0
            THEN <<"Provide additional support to delayed areas",
                   "Consider supplemental fertilization in slow-growing zones">>
            ELSE <<>>)

\* _analyze_growth_stage_data
analyze_growth_stage_data(data_points, boundaries) ==
    IF data_points = <<>> THEN [status |-> "no_data"]
    ELSE LET stages == Values(data_points)
             m == Mean(stages)
             var == Var(stages)
             Advanced(st) == GtStd(RSub(st, m), 1, var)
             Delayed(st) == LtMinusStd(RSub(st, m), 1, var)
         IN  [average_growth_stage |-> RDiv(RSum(stages), Int2R(Len(stages))),
              growth_uniformity |-> Std(stages),
              advanced_areas |-> Count(stages, Advanced),
              delayed_areas |-> Count(stages, Delayed),
              management_recommendations |->
                  generate_growth_stage_recommendations(stages)]

\* _analyze_generic_data
analyze_generic_data(data_points, boundaries) ==
    IF data_points = <<>> THEN [status |-> "no_data"]
    ELSE LET values == Values(data_points)
         IN  [average_value |-> RDiv(RSum(values), Int2R(Len(values))),
              min_value |-> RMinSeq(values),
              max_value |-> RMaxSeq(values),
              standard_deviation |-> Std(values),
              data_quality |-> IF Len(values) > 10 THEN "good" ELSE "limited"]

\* x = k * std with std > 0: the reading is exactly on a threshold of
\* _detect_field_anomalies, where the float comparison abs(value - mean_val) >
\* k * std_val depends on how mean_val, the difference and std_val were rounded
OnStd(x, k, var) == var.n > 0 /\ x.n > 0 /\ RMul(Int2R(k * k), var) = RSq(x)

\* the roundings a collection of readings can have in _detect_field_anomalies:
\* 1 where the float comparison on a threshold comes out True, 0 elsewhere;
\* equal readings are rounded alike
AnomalyRoundings(data_points) ==
    IF data_points = <<>> THEN {<<>>}
    ELSE LET values == Values(data_points)
             mean_val == Mean(values)
             var == Var(values)
             OnThreshold(i) ==
                 \/ OnStd(RAbs(RSub(values[i], mean_val)), 2, var)
                 \/ OnStd(RAbs(RSub(values[i], mean_val)), 3, var)
             threshold_values == { values[i] : i \in { j \in DOMAIN values : OnThreshold(j) } }
         IN  { [i \in DOMAIN data_points |-> IF values[i] \in up THEN 1 ELSE 0] :
                   up \in SUBSET threshold_values }

\* a mutant of _detect_field_anomalies: expected_range is three standard
\* deviations wide on each side
detect_field_anomalies_float_wide(data_points, data_type, rounding) ==
    IF data_points = <<>> THEN <<>>
    ELSE LET values == Values(data_points)
             mean_val == Mean(values)
             var == Var(values)
             Exceeds(i, k) ==
                 LET distance == RAbs(RSub(values[i], mean_val))
                 IN  GtStd(distance, k, var) \/ (OnStd(distance, k, var) /\ rounding[i] = 1)
             Outlier(i) == Exceeds(i, 2)
             outliers == Filter([i \in DOMAIN data_points |-> i], Outlier)
         IN  [o \in DOMAIN outliers |->
                [location |-> Get(data_points[outliers[o]], "location", <<0, 0>>),
                 value |-> values[outliers[o]],
                 expected_range |-> <<Surd(mean_val, Int2R(-3), var),
                                      Surd(mean_val, Int2R(3), var)>>,
                 severity |-> IF Exceeds(outliers[o], 3) THEN "high" ELSE "medium",
                 type |-> "outlier"]]

\* _detect_field_anomalies as float arithmetic computes it: off the
\* thresholds the comparisons are those of the exact values, on a threshold
\* they are what the rounding makes them
detect_field_anomalies_float(data_points, data_type, rounding) ==
    IF data_points = <<>> THEN <<>>
    ELSE LET values == Values(data_points)
             mean_val == Mean(values)
             var == Var(values)
             \* abs(value - mean_val) > k * std_val
             Exceeds(i, k) ==
                 LET distance == RAbs(RSub(values[i], mean_val))
                 IN  GtStd(distance, k, var) \/ (OnStd(distance, k, var) /\ rounding[i] = 1)
             Outlier(i) == Exceeds(i, 2)
             outliers == Filter([i \in DOMAIN data_points |-> i], Outlier)
         IN  [o \in DOMAIN outliers |->
                [location |-> Get(data_points[outliers[o]], "location", <<0, 0>>),
                 value |-> values[outliers[o]],
                 expected_range |-> <<Surd(mean_val, Int2R(-1), var),
                                      Surd(mean_val, ROne, var)>>,
                 severity |-> IF Exceeds(outliers[o], 3) THEN "high" ELSE "medium",
                 type |-> "outlier"]]

\* A mutant of _detect_field_anomalies: the flagging threshold is 3 standard
\* deviations, like the severity threshold.
detect_field_anomalies_3sigma(data_points, data_type) ==
    IF data_points = <<>> THEN <<>>
    ELSE LET values == Values(data_points)
             mean_val == Mean(values)
             var == Var(values)
             Outlier(point) ==
                 GtStd(RAbs(RSub(Get(point, "value", RZero), mean_val)), 3, var)
             outliers == Filter(data_points, Outlier)
         IN  [i \in DOMAIN outliers |->
                [location |-> Get(outliers[i], "location", <<0, 0>>),
                 value |-> Get(outliers[i], "value", RZero),
                 expected_range |-> <<Surd(mean_val, Int2R(-1), var),
                                      Surd(mean_val, ROne, var)>>,
                 severity |-> "high",
                 type |-> "outlier"]]

\* _detect_field_anomalies on readings none of which is on a threshold (the
\* collections analyze_field_monitoring_data is called with here)
detect_field_anomalies(data_points, data_type) ==
    detect_field_anomalies_float(data_points, data_type, [i \in DOMAIN data_points |-> 0])

\* _generate_monitoring_recommendations
generate_monitoring_recommendations(analysis, anomalies, data_type) ==
    (IF data_type = "ndvi"
     THEN (IF RLt(Get(analysis, "field_health_score", RZero), Int2R(70))
           THEN <<"Field health below optimal - investigate stress factors">>
           ELSE <<>>)
          \o (IF Len(anomalies) > 0
              THEN <<"Address anomalous areas with targeted interventions">>
              ELSE <<>>)
     ELSE IF data_type = "soil_moisture"
     THEN (IF Get(analysis, "dry_areas", 0) > 0
           THEN <<"Increase irrigation in dry areas">> ELSE <<>>)
          \o (IF Get(analysis, "wet_areas", 0) > 0
              THEN <<"Improve drainage in waterlogged areas">> ELSE <<>>)
     ELSE IF data_type = "temperature"
     THEN (IF Get(analysis, "heat_stress_areas", 0) > 0
           THEN <<"Implement heat stress mitigation strategies">> ELSE <<>>)
     ELSE <<>>)
    \o <<"Continue regular monitoring for trend analysis",
         "Document any management interventions",
         "Compare with historical data for context">>

\* _calculate_field_statistics
calculate_field_statistics(data_points) ==
    IF data_points = <<>> THEN EmptyDict
    ELSE LET values == Values(data_points)
             m == Mean(values)
         IN  [count |-> Len(values),
              mean |-> m,
              median |-> Percentile(values, 50),
              std_dev |-> Std(values),
              min |-> RMinSeq(values),
              max |-> RMaxSeq(values),
              range |-> RSub(RMaxSeq(values), RMinSeq(values)),
              coefficient_of_variation |->
                  IF m # RZero THEN Surd(RZero, RDiv(ROne, m), Var(values))
                               ELSE Surd(RZero, RZero, RZero)]

\* A mutant of _identify_spatial_patterns: the guard is `if not data_points:
\* return {}` as in _calculate_field_statistics.
identify_spatial_patterns_noguard(data_points) ==
    IF data_points = <<>> THEN EmptyDict ELSE [status |-> "insufficient_data"]

\* _identify_spatial_patterns
identify_spatial_patterns(data_points) ==
    IF Len(data_points) < 4 THEN [status |-> "insufficient_data"]
    ELSE LET locations ==
                 [i \in DOMAIN data_points |-> Get(data_points[i], "location", <<0, 0>>)]
             values == Values(data_points)
             mean_lat == Mean([i \in DOMAIN locations |-> Int2R(locations[i][1])])
             mean_lng == Mean([i \in DOMAIN locations |-> Int2R(locations[i][2])])
             Idx == [i \in DOMAIN values |-> i]
             North(i) == RLt(mean_lat, Int2R(locations[i][1]))
             South(i) == RLe(Int2R(locations[i][1]), mean_lat)
             East(i) == RLt(mean_lng, Int2R(locations[i][2]))
             West(i) == RLe(Int2R(locations[i][2]), mean_lng)
             Pick(idx) == [k \in DOMAIN idx |-> values[idx[k]]]
             north_values == Pick(Filter(Idx, North))
             south_values == Pick(Filter(Idx, South))
             east_values == Pick(Filter(Idx, East))
             west_values == Pick(Filter(Idx, West))
             var == Var(values)
             ns_diff == RAbs(RSub(Mean(north_values), Mean(south_values)))
             ew_diff == RAbs(RSub(Mean(east_values), Mean(west_values)))
             ns == IF north_values # <<>> /\ south_values # <<>>
                      /\ GtStd(ns_diff, 1, var)
                   THEN [north_south_gradient |->
                            [detected |-> TRUE,
                             direction |->
                                 IF RLt(Mean(south_values), Mean(north_values))
                                 THEN "north_higher" ELSE "south_higher",
                             magnitude |-> ns_diff]]
                   ELSE EmptyDict
             ew == IF east_values # <<>> /\ west_values # <<>>
                      /\ GtStd(ew_diff, 1, var)
                   THEN [east_west_gradient |->
                            [detected |-> TRUE,
                             direction |->
                                 IF RLt(Mean(west_values), Mean(east_values))
                                 THEN "east_higher" ELSE "west_higher",
                             magnitude |-> ew_diff]]
                   ELSE EmptyDict
         IN  ns @@ ew

\* A mutant of _suggest_next_monitoring_date: the interval table is ignored.
suggest_next_monitoring_date_weekly(data_type, at) == at + 7

\* _suggest_next_monitoring_date: datetime.utcnow() + timedelta(days=...)
suggest_next_monitoring_date(data_type, at) ==
    LET intervals ==
            [ndvi |-> 14, soil_moisture |-> 7, temperature |-> 3, growth_stage |-> 10]
        days_ahead == Get(intervals, data_type, 7)
    IN  at + days_ahead

\* analyze_field_monitoring_data: the record it returns for monitoring_data
\* at time `at` (datetime.utcnow() read during the call)
analyze_field_monitoring_data(monitoring_data, at) ==
    LET data_type == Get(monitoring_data, "type", "ndvi")
        data_points == Get(monitoring_data, "data_points", <<>>)
        field_boundaries == Get(monitoring_data, "field_boundaries", <<>>)
        measurement_date == Get(monitoring_data, "date", at)
        analysis ==
            IF data_type = "ndvi"
            THEN analyze_ndvi_data(data_points, field_boundaries)
            ELSE IF data_type = "soil_moisture"
            THEN analyze_soil_moisture_data(data_points, field_boundaries)
            ELSE IF data_type = "temperature"
            THEN analyze_temperature_data(data_points, field_boundaries)
            ELSE IF data_type = "growth_stage"
            THEN analyze_growth_stage_data(data_points, field_boundaries)
            ELSE analyze_generic_data(data_points, field_boundaries)
        anomalies == detect_field_anomalies(data_points, data_type)
        recommendations ==
            generate_monitoring_recommendations(analysis, anomalies, data_type)
    IN  IF get_raises(data_points)
        THEN [error |-> "Failed to analyze monitoring data: AttributeError"]
        ELSE
        [monitoring_analysis |->
            [type |-> data_type,
             measurement_date |-> measurement_date,
             analysis_results |-> analysis,
             anomalies_detected |-> anomalies,
             field_statistics |-> calculate_field_statistics(data_points),
             spatial_patterns |-> identify_spatial_patterns(data_points),
             recommendations |-> recommendations,
             next_monitoring_date |-> suggest_next_monitoring_date(data_type, at),
             analyzed_at |-> at]]

----------------------------------------------------------------------------
(* PrecisionAgricultureService: variable rate application *)

\* x in xs, for a list xs
Contains(xs, x) == \E i \in DOMAIN xs : xs[i] = x

base_rates ==
    [fertilizer |-> [corn |-> Int2R(150), soybean |-> Int2R(100), wheat |-> Int2R(120)],
     pesticide |-> [corn |-> R(25, 10), soybean |-> Int2R(2), wheat |-> R(22, 10)],
     seed |-> [corn |-> Int2R(75000), soybean |-> Int2R(350000), wheat |-> Int2R(4500000)],
     water |-> [corn |-> Int2R(25), soybean |-> Int2R(20), wheat |-> Int2R(22)]]

\* _get_application_unit
get_application_unit(app_type) ==
    Get([fertilizer |-> "kg/ha", pesticide |-> "L/ha", seed |-> "seeds/ha", water |-> "mm"],
        app_type, "units/ha")

\* _get_rate_justification; ', '.join(...) is kept as the list it joins
get_rate_justification(zone, rate_modifier) ==
    IF RLt(ROne, rate_modifier)
    THEN [text |-> "Increased rate due to", joined |-> Get(zone, "characteristics", <<>>)]
    ELSE IF RLt(rate_modifier, ROne)
    THEN [text |-> "Reduced rate due to", joined |-> Get(zone, "characteristics", <<>>)]
    ELSE [text |-> "Standard rate for zone conditions", joined |-> <<>>]

\* A mutant of the rate modifier: poorly drained zones get 0.4 of the rate.
rate_modifier_of_steep(zone) ==
    IF Contains(Get(zone, "characteristics", <<>>), "poor_drainage")
    THEN RMul(ROne, R(4, 10))
    ELSE IF Contains(Get(zone, "characteristics", <<>>), "good_drainage")
    THEN RMul(ROne, R(11, 10))
    ELSE ROne

\* the rate modifier of one zone (lines 409-414)
rate_modifier_of(zone) ==
    IF Contains(Get(zone, "characteristics", <<>>), "poor_drainage")
    THEN RMul(ROne, R(8, 10))
    ELSE IF Contains(Get(zone, "characteristics", <<>>), "good_drainage")
    THEN RMul(ROne, R(11, 10))
    ELSE ROne

\* A mutant of the base rate lookup: the fallback rate is 0.
base_rate_of_zero(app_type, crop) ==
    Get(Get(base_rates, app_type, EmptyDict), crop, RZero)

\* base_rates.get(app_type, {}).get(crop, 100)
base_rate_of(app_type, crop) ==
    Get(Get(base_rates, app_type, EmptyDict), crop, Int2R(100))

\* _generate_application_rates
generate_application_rates(field_zones, app_type, crop, soil_tests) ==
    LET base_rate == base_rate_of(app_type, crop)
    IN  [i \in DOMAIN field_zones |->
            [zone_id |-> Get(field_zones[i], "zone_id", "unknown"),
             application_rate |-> RMul(base_rate, rate_modifier_of(field_zones[i])),
             unit |-> get_application_unit(app_type),
             justification |->
                 get_rate_justification(field_zones[i], rate_modifier_of(field_zones[i]))]]

\* [zone.get("application_rate", 0) for zone in rate_map]
Rates(rate_map) ==
    [i \in DOMAIN rate_map |-> Get(rate_map[i], "application_rate", RZero)]

\* A mutant of _calculate_application_quantities: the total quantity is the
\* sum of the rates, not multiplied by the area.
calculate_application_quantities_unweighted(rate_map) ==
    LET total_rate == RSum(Rates(rate_map))
    IN  [total_area |-> Len(rate_map),
         average_rate |->
             IF rate_map # <<>> THEN RDiv(total_rate, Int2R(Len(rate_map))) ELSE RZero,
         total_quantity |-> total_rate,
         zone_breakdown |-> rate_map]

\* _calculate_application_quantities
calculate_application_quantities(rate_map) ==
    LET total_rate == RSum(Rates(rate_map))
        total_area == Len(rate_map)
    IN  [total_area |-> total_area,
         average_rate |->
             IF rate_map # <<>> THEN RDiv(total_rate, Int2R(Len(rate_map))) ELSE RZero,
         total_quantity |-> RMul(total_rate, Int2R(total_area)),
         zone_breakdown |-> rate_map]

\* _get_application_timing
get_application_timing(app_type, crop) ==
    LET timing_recommendations ==
            [fertilizer |->
                [corn |-> [pre_plant |-> "2-3 weeks before planting",
                           side_dress |-> "V6-V8 growth stage"],
                 soybean |-> [pre_plant |-> "1-2 weeks before planting"],
                 wheat |-> [fall |-> "at planting", spring |-> "early spring growth"]],
             pesticide |->
                [corn |-> [pre_emerge |-> "within 3 days of planting",
                           post_emerge |-> "V3-V6 stage"],
                 soybean |-> [pre_emerge |-> "within 2 days of planting",
                              post_emerge |-> "V2-V4 stage"],
                 wheat |-> [fall |-> "4-6 weeks after emergence", spring |-> "early spring"]]]
    IN  Get(Get(timing_recommendations, app_type, EmptyDict), crop,
            [general |-> "consult agronomist"])

\* A mutant of _recommend_equipment: the tiers end at 20 and 100 inclusive.
recommend_equipment_inclusive(app_type, field_size) ==
    LET equipment_recommendations ==
            [fertilizer |-> [small |-> "Broadcast spreader with GPS guidance",
                             medium |-> "Self-propelled applicator with variable rate",
                             large |-> "High-capacity applicator with precision guidance"],
             pesticide |-> [small |-> "ATV-mounted sprayer",
                            medium |-> "Self-propelled sprayer with boom",
                            large |-> "High-clearance sprayer with GPS"],
             seed |-> [small |-> "Precision planter",
                       medium |-> "Multi-row planter with GPS",
                       large |-> "Large planter with variable rate seeding"]]
        size_category ==
            IF field_size <= 20 THEN "small" ELSE IF field_size <= 100 THEN "medium" ELSE "large"
    IN  [recommended_equipment |->
            Get(Get(equipment_recommendations, app_type, EmptyDict), size_category,
                "Standard equipment"),
         features_needed |-> <<"GPS guidance", "variable rate capability", "application mapping">>,
         calibration_notes |-> "Calibrate equipment before each use for accuracy"]

\* _recommend_equipment
recommend_equipment(app_type, field_size) ==
    LET equipment_recommendations ==
            [fertilizer |-> [small |-> "Broadcast spreader with GPS guidance",
                             medium |-> "Self-propelled applicator with variable rate",
                             large |-> "High-capacity applicator with precision guidance"],
             pesticide |-> [small |-> "ATV-mounted sprayer",
                            medium |-> "Self-propelled sprayer with boom",
                            large |-> "High-clearance sprayer with GPS"],
             seed |-> [small |-> "Precision planter",
                       medium |-> "Multi-row planter with GPS",
                       large |-> "Large planter with variable rate seeding"]]
        size_category ==
            IF field_size < 20 THEN "small" ELSE IF field_size < 100 THEN "medium" ELSE "large"
    IN  [recommended_equipment |->
            Get(Get(equipment_recommendations, app_type, EmptyDict), size_category,
                "Standard equipment"),
         features_needed |-> <<"GPS guidance", "variable rate capability", "application mapping">>,
         calibration_notes |-> "Calibrate equipment before each use for accuracy"]

cost_per_unit ==
    [fertilizer |-> R(50, 100), pesticide |-> Int2R(15), seed |-> R(3, 1000), water |-> R(10, 100)]

\* max(a, b) on integers
IMax(a, b) == IF a < b THEN b ELSE a

\* A mutant of _calculate_application_cost: the cost per hectare is the total
\* cost, not divided by the area.
calculate_application_cost_undivided(quantities, app_type) ==
    LET unit_cost == Get(cost_per_unit, app_type, ROne)
        total_quantity == Get(quantities, "total_quantity", RZero)
        product_cost == RMul(total_quantity, unit_cost)
        application_cost == Int2R(Get(quantities, "total_area", 0) * 25)
    IN  [product_cost |-> product_cost,
         application_cost |-> application_cost,
         total_cost |-> RAdd(product_cost, application_cost),
         cost_per_hectare |-> RAdd(product_cost, application_cost)]

\* _calculate_application_cost
calculate_application_cost(quantities, app_type) ==
    LET unit_cost == Get(cost_per_unit, app_type, ROne)
        total_quantity == Get(quantities, "total_quantity", RZero)
        product_cost == RMul(total_quantity, unit_cost)
        application_cost == Int2R(Get(quantities, "total_area", 0) * 25)
    IN  [product_cost |-> product_cost,
         application_cost |-> application_cost,
         total_cost |-> RAdd(product_cost, application_cost),
         cost_per_hectare |->
             RDiv(RAdd(product_cost, application_cost),
                  Int2R(IMax(Get(quantities, "total_area", 1), 1)))]

\* np.var(xs) > t, decided on the values divided by a scale s > 0 so that the
\* squares stay small: var(xs) = s * s * var(xs / s)
VarExceeds(xs, t) ==
    LET m == RMaxSeq([i \in DOMAIN xs |-> RAbs(xs[i])])
        s == IF m = RZero THEN ROne ELSE m
        scaled == [i \in DOMAIN xs |-> RDiv(xs[i], s)]
    IN  RLt(RDiv(t, s), RMul(Var(scaled), s))

standard_notes ==
    <<"Monitor weather conditions before application",
      "Ensure proper equipment calibration",
      "Document actual application rates for future reference",
      "Consider soil moisture conditions before application">>

\* _generate_optimization_notes: the notes, or the exception of the division
\* max_rate / min_rate when the smallest rate is 0
generate_optimization_notes(rate_map) ==
    LET rates == Rates(rate_map)
        max_rate == RMaxSeq(rates)
        min_rate == RMinSeq(rates)
    IN  IF rates # <<>> /\ min_rate = RZero
        THEN [raises |-> "ZeroDivisionError"]
        ELSE [raises |-> "",
              notes |->
                  (IF rates # <<>> /\ VarExceeds(rates, Int2R(100))
                   THEN <<"High rate variability detected - ensure equipment calibration">>
                   ELSE <<>>)
                  \o (IF rates # <<>> /\ RLt(Int2R(2), RDiv(max_rate, min_rate))
                      THEN <<"Consider splitting application into multiple passes">>
                      ELSE <<>>)
                  \o standard_notes]

\* A mutant of plan_variable_rate_application: when a zone fails, the error
\* comes with the standard notes.
plan_variable_rate_application_partial(application_data, at) ==
    LET field_zones == Get(application_data, "field_zones", <<>>)
        application_type == Get(application_data, "type", "fertilizer")
        target_crop == Get(application_data, "crop_type", "corn")
        soil_test_results == Get(application_data, "soil_tests", <<>>)
        rate_map == generate_application_rates(field_zones, application_type,
                                               target_crop, soil_test_results)
        quantities == calculate_application_quantities(rate_map)
        notes == generate_optimization_notes(rate_map)
    IN  IF get_raises(field_zones)
        THEN [error |-> <<"Failed to plan application:", "AttributeError">>,
              optimization_notes |-> standard_notes]
        ELSE IF notes.raises # ""
        THEN [error |-> <<"Failed to plan application:", notes.raises>>]
        ELSE [application_plan |->
                 [type |-> application_type,
                  crop |-> target_crop,
                  rate_map |-> rate_map,
                  total_quantities |-> quantities,
                  timing |-> get_application_timing(application_type, target_crop),
                  equipment |-> recommend_equipment(application_type, quantities.total_area),
                  estimated_cost |-> calculate_application_cost(quantities, application_type),
                  created_at |-> at],
              optimization_notes |-> notes.notes]

\* plan_variable_rate_application: the record it returns for application_data
\* at time `at`
plan_variable_rate_application(application_data, at) ==
    LET field_zones == Get(application_data, "field_zones", <<>>)
        application_type == Get(application_data, "type", "fertilizer")
        target_crop == Get(application_data, "crop_type", "corn")
        soil_test_results == Get(application_data, "soil_tests", <<>>)
        rate_map == generate_application_rates(field_zones, application_type,
                                               target_crop, soil_test_results)
        quantities == calculate_application_quantities(rate_map)
        notes == generate_optimization_notes(rate_map)
    IN  IF get_raises(field_zones)
        THEN [error |-> <<"Failed to plan application:", "AttributeError">>]
        ELSE IF notes.raises # ""
        THEN [error |-> <<"Failed to plan application:", notes.raises>>]
        ELSE [application_plan |->
                 [type |-> application_type,
                  crop |-> target_crop,
                  rate_map |-> rate_map,
                  total_quantities |-> quantities,
                  timing |-> get_application_timing(application_type, target_crop),
                  equipment |-> recommend_equipment(application_type, quantities.total_area),
                  estimated_cost |-> calculate_application_cost(quantities, application_type),
                  created_at |-> at],
              optimization_notes |-> notes.notes]

----------------------------------------------------------------------------
(* PrecisionAgricultureService: yield prediction map                       *)
(*                                                                         *)
(* Rounding.  With two zones, or with equal yields, a zone lies exactly    *)
(* on a threshold of the z-score classification (1, 0, -1 standard         *)
(* deviations).  On yields that are float products (base * modifier) the   *)
(* side the float comparison takes depends on the rounding of the          *)
(* operands.  A call therefore carries `rounding`, one entry of -1, 0 or 1 *)
(* per zone and computation: the sign of (float z-score - exact z-score)   *)
(* of the zone, 0 when the floats are exact.  It matters on a threshold    *)
(* only.                                                                   *)

base_yield_of(crop_type) ==
    Get([corn |-> Int2R(10000), soybean |-> Int2R(3000), wheat |-> Int2R(5000)],
        crop_type, Int2R(5000))

\* _assess_zone_yield_risks
assess_zone_yield_risks(zone, current_season) ==
    LET characteristics == Get(zone, "characteristics", <<>>)
    IN  (IF Contains(characteristics, "poor_drainage")
         THEN <<"Waterlogging risk in wet conditions">> ELSE <<>>)
        \o (IF Contains(characteristics, "low_organic_matter")
            THEN <<"Nutrient deficiency risk">> ELSE <<>>)
        \o (IF Contains(characteristics, "steep_slope")
            THEN <<"Erosion risk during heavy rainfall">> ELSE <<>>)
        \o Get(current_season, "weather_risks", <<>>)

\* A mutant of the characteristic multipliers: poor drainage leaves 0.3 of
\* the yield.
characteristics_modifier_steep(zone) ==
    LET characteristics == Get(zone, "characteristics", <<>>)
        drainage ==
            IF Contains(characteristics, "good_drainage") THEN RMul(ROne, R(11, 10))
            ELSE IF Contains(characteristics, "poor_drainage") THEN RMul(ROne, R(3, 10))
            ELSE ROne
    IN  IF Contains(characteristics, "high_organic_matter")
        THEN RMul(drainage, R(105, 100))
        ELSE drainage

\* the product of the characteristic multipliers of a zone (lines 949-958)
characteristics_modifier(zone) ==
    LET characteristics == Get(zone, "characteristics", <<>>)
        drainage ==
            IF Contains(characteristics, "good_drainage") THEN RMul(ROne, R(11, 10))
            ELSE IF Contains(characteristics, "poor_drainage") THEN RMul(ROne, R(9, 10))
            ELSE ROne
    IN  IF Contains(characteristics, "high_organic_matter")
        THEN RMul(drainage, R(105, 100))
        ELSE drainage

\* _predict_zone_yield
predict_zone_yield(zone, historical_yields, current_season, crop_type) ==
    LET base_yield == base_yield_of(crop_type)
        weather_impact == Get(current_season, "weather_impact", ROne)
        \* yield_modifier *= weather_impact
        yield_modifier == RMul(characteristics_modifier(zone), weather_impact)
    IN  [zone_id |-> Get(zone, "zone_id", "unknown"),
         predicted_yield_kg_ha |-> RMul(base_yield, yield_modifier),
         confidence |-> IF historical_yields # <<>> THEN R(7, 10) ELSE R(5, 10),
         yield_factors |->
             [base_yield |-> base_yield,
              zone_modifier |-> yield_modifier,
              weather_impact |-> weather_impact],
         risk_factors |-> assess_zone_yield_risks(zone, current_season)]

\* [pred.get("predicted_yield_kg_ha", 0) for pred in yield_predictions]
Yields(yield_predictions) ==
    [i \in DOMAIN yield_predictions |->
        Get(yield_predictions[i], "predicted_yield_kg_ha", RZero)]

\* the exact z-score of y against 1, 0 and -1: its position among the
\* thresholds, "flat" when the standard deviation is 0
ZPosition(y, mean, var) ==
    LET d == RSub(y, mean)
    IN  IF var = RZero THEN "flat"
        ELSE IF d.n > 0
        THEN (IF RLt(var, RSq(d)) THEN "above_1" ELSE IF RSq(d) = var THEN "at_1" ELSE "in_0_1")
        ELSE IF d.n = 0 THEN "at_0"
        ELSE (IF RLt(var, RSq(d)) THEN "below_-1"
              ELSE IF RSq(d) = var THEN "at_-1" ELSE "in_-1_0")

\* the float z-score compared with 1, 0, -1: +1 when it is greater
ZGreater(position, t, round) ==
    CASE position = "above_1" -> TRUE
      [] position = "at_1" -> t < 1 \/ round = 1
      [] position = "in_0_1" -> t < 1
      [] position = "at_0" -> t < 0 \/ (t = 0 /\ round = 1)
      [] position = "in_-1_0" -> t < 0
      [] position = "at_-1" -> t = -1 /\ round = 1
      [] position = "below_-1" -> FALSE
      \* equal yields: the float deviations are all 0, all +std or all -std
      [] position = "flat" -> (t = -1 /\ round # -1) \/ (t = 0 /\ round = 1)

\* the float z-score compared with -1: TRUE when it is smaller
ZBelowMinus1(position, round) ==
    CASE position = "below_-1" -> TRUE
      [] position = "at_-1" -> round = -1
      [] position = "flat" -> round = -1
      [] OTHER -> FALSE

\* _calculate_yield_statistics
calculate_yield_statistics(yield_predictions, rounding) ==
    IF yield_predictions = <<>> THEN EmptyDict
    ELSE LET yields == Yields(yield_predictions)
             m == Mean(yields)
             var == Var(yields)
             Idx == {i \in DOMAIN yields : TRUE}
         IN  [average_yield_kg_ha |-> RDiv(RSum(yields), Int2R(Len(yields))),
              min_yield_kg_ha |-> RMinSeq(yields),
              max_yield_kg_ha |-> RMaxSeq(yields),
              yield_variability |-> Std(yields),
              total_zones |-> Len(yield_predictions),
              \* y > mean + std
              high_yield_zones |->
                  Cardinality({i \in Idx :
                      LET pos == ZPosition(yields[i], m, var)
                      IN  IF pos = "flat" THEN rounding[i] = 1
                          ELSE ZGreater(pos, 1, rounding[i])}),
              \* y < mean - std
              low_yield_zones |->
                  Cardinality({i \in Idx :
                      ZBelowMinus1(ZPosition(yields[i], m, var), rounding[i])})]

\* _create_yield_variability_map
create_yield_variability_map(yield_predictions, rounding) ==
    IF yield_predictions = <<>> THEN EmptyDict
    ELSE LET yields == Yields(yield_predictions)
             mean_yield == Mean(yields)
             var == Var(yields)
         IN  [zones |->
                 [i \in DOMAIN yield_predictions |->
                     LET pos == ZPosition(yields[i], mean_yield, var)
                     IN  [zone_id |-> Get(yield_predictions[i], "zone_id", Null),
                          yield_category |->
                              IF ZGreater(pos, 1, rounding[i]) THEN "high_yield"
                              ELSE IF ZGreater(pos, 0, rounding[i]) THEN "above_average"
                              ELSE IF ZGreater(pos, -1, rounding[i]) THEN "below_average"
                              ELSE "low_yield",
                          \* (yield_val - mean_yield) / std_yield if std_yield > 0 else 0
                          deviation_from_mean |->
                              IF var # RZero
                              THEN Surd(RZero, RSub(yields[i], mean_yield), RDiv(ROne, var))
                              ELSE Surd(RZero, RZero, RZero),
                          predicted_yield |-> yields[i]]],
              field_mean |-> mean_yield,
              field_std |-> Std(yields),
              variability_coefficient |->
                  IF mean_yield.n > 0 THEN Surd(RZero, RDiv(ROne, mean_yield), var)
                  ELSE Surd(RZero, RZero, RZero)]

\* _assess_yield_risks; np.std / np.mean of no yields, or of a zero mean, is
\* nan and compares False
assess_yield_risks(yield_predictions, current_season) ==
    LET weather_conditions == Get(current_season, "weather_conditions", EmptyDict)
        yields == Yields(yield_predictions)
        high_cv ==
            /\ yields # <<>>
            /\ Mean(yields).n > 0
            \* std / mean > 0.3
            /\ RLt(RMul(R(9, 100), RSq(Mean(yields))), Var(yields))
    IN  [weather_risks |->
            (IF RLt(R(5, 10), Get(weather_conditions, "drought_risk", RZero))
             THEN <<"High drought risk may reduce yields">> ELSE <<>>)
            \o (IF RLt(R(5, 10), Get(weather_conditions, "excess_moisture", RZero))
                THEN <<"Excess moisture may cause disease and reduce yields">> ELSE <<>>),
         pest_disease_risks |-> <<>>,
         management_risks |->
            IF high_cv
            THEN <<"High yield variability indicates management optimization opportunities">>
            ELSE <<>>,
         market_risks |-> <<>>]

\* _calculate_prediction_confidence
calculate_prediction_confidence(historical_yields, current_season) ==
    LET base_confidence ==
            IF Len(historical_yields) > 3 THEN RAdd(R(6, 10), R(2, 10))
            ELSE IF Len(historical_yields) > 1 THEN RAdd(R(6, 10), R(1, 10))
            ELSE R(6, 10)
        weather_certainty == Get(current_season, "weather_certainty", R(7, 10))
    IN  RMin(R(95, 100), RMul(base_confidence, weather_certainty))

\* generate_yield_prediction_map after its loop (lines 185-211): the record
\* returned at time `at` for the zone predictions collected; rounding.map
\* and rounding.stats are the roundings of the variability map and of the
\* statistics
return_yield_prediction(field_data, yield_predictions, at, rounding) ==
    LET historical_yields == Get(field_data, "historical_yields", <<>>)
        current_season_data == Get(field_data, "current_season", EmptyDict)
        crop_type == Get(field_data, "crop_type", "corn")
    IN  [yield_prediction |->
            [crop_type |-> crop_type,
             prediction_date |-> at,
             zone_predictions |-> yield_predictions,
             field_statistics |->
                 calculate_yield_statistics(yield_predictions, rounding.stats),
             variability_map |->
                 create_yield_variability_map(yield_predictions, rounding.map),
             risk_assessment |-> assess_yield_risks(yield_predictions, current_season_data),
             confidence_level |->
                 calculate_prediction_confidence(historical_yields, current_season_data),
             factors_considered |->
                 <<"soil_quality", "weather_patterns", "management_practices",
                   "historical_performance", "current_crop_health">>]]

\* the loop of generate_yield_prediction_map (lines 177-183) run without
\* another call in between
predict_all_zones(field_data) ==
    LET field_zones == Get(field_data, "management_zones", <<>>)
    IN  [i \in DOMAIN field_zones |->
            predict_zone_yield(field_zones[i],
                               Get(field_data, "historical_yields", <<>>),
                               Get(field_data, "current_season", EmptyDict),
                               Get(field_data, "crop_type", "corn"))]

\* generate_yield_prediction_map run from call to return without another
\* call in between
generate_yield_prediction_map(field_data, at, rounding) ==
    IF get_raises(Get(field_data, "management_zones", <<>>))
    THEN [error |-> "Failed to generate yield prediction: AttributeError"]
    ELSE return_yield_prediction(field_data, predict_all_zones(field_data), at, rounding)

\* the roundings a list of zone yields can have in the variability map
\* (which tests z > 1, z > 0, z > -1) and in the statistics (which test
\* y > mean + std, y < mean - std): 0 off the thresholds, the same for equal
\* yields, and only those that can change the outcome of a test
Roundings(yields, tests) ==
    LET mean == Mean(yields)
        var == Var(yields)
        Possible(i) ==
            LET position == ZPosition(yields[i], mean, var)
            IN  IF position = "flat" THEN {-1, 0, 1}
                ELSE IF position = "at_1" THEN {0, 1}
                ELSE IF position = "at_0" /\ tests = "map" THEN {0, 1}
                ELSE IF position = "at_-1"
                THEN (IF tests = "map" THEN {0, 1} ELSE {-1, 0})
                ELSE {0}
    IN  { r \in [DOMAIN yields -> {-1, 0, 1}] :
            /\ \A i \in DOMAIN yields : r[i] \in Possible(i)
            /\ \A i, j \in DOMAIN yields : yields[i] = yields[j] => r[i] = r[j] }
RoundingPairs(yield_predictions) ==
    IF yield_predictions = <<>> THEN {[map |-> <<>>, stats |-> <<>>]}
    ELSE [map : Roundings(Yields(yield_predictions), "map"),
          stats : Roundings(Yields(yield_predictions), "stats")]

----------------------------------------------------------------------------
(* Inputs of create_field_map; the call, and the same call made again *)

\* all sequences over S of length 0..n
SeqsUpTo(S, n) == UNION {[1..k -> S] : k \in 0..n}

Corners == <<<<0, 0>>, <<0, 1>>, <<60, 1>>, <<60, 0>>>>
Polygon(k) == [i \in 1..k |-> Corners[((i - 1) % 4) + 1]]

ElevationPoints ==
    {[location |-> <<0, 0>>, elevation |-> Int2R(4)],
     [location |-> <<0, 1>>, elevation |-> Int2R(10)],
     [location |-> <<60, 1>>]}
SoilSamplePoints ==
    {[location |-> <<0, 0>>, soil_type |-> "clay", ph |-> R(55, 10),
      organic_matter |-> Int2R(1), nitrogen |-> Int2R(10)],
     [ph |-> Int2R(8)]}

\* a polygon whose first vertex lacks its longitude
BadPolygon(k) == [i \in 1..k |-> IF i = 1 THEN <<0>> ELSE Polygon(k)[i]]

\* a key of field_data is absent, or holds a list
FieldDataInputs ==
    {b @@ e @@ s :
        b \in {EmptyDict}
                 \cup {[boundaries |-> Polygon(k)] : k \in 0..MaxVertices}
                 \cup {[boundaries |-> BadPolygon(k)] : k \in 2..MaxVertices},
        e \in {EmptyDict}
                 \cup {[elevation_data |-> x] : x \in SeqsUpTo(ElevationPoints, MaxElevations)},
        s \in {EmptyDict}
                 \cup {[soil_samples |-> x] : x \in SeqsUpTo(SoilSamplePoints, MaxSoilSamples)}}

FmIdle == [pc |-> "idle", field_data |-> EmptyDict, result |-> Null, again |-> Null]

CreateFieldMap(field_data) ==
    /\ fm.pc = "idle"
    /\ fm' = [fm EXCEPT !.pc = "returned",
                        !.field_data = field_data,
                        !.result = create_field_map(field_data, now)]
    /\ UNCHANGED NotFm

\* the same field_data passed a second time
CreateFieldMapAgain ==
    /\ fm.pc = "returned"
    /\ fm' = [fm EXCEPT !.pc = "again",
                        !.again = create_field_map(fm.field_data, now)]
    /\ UNCHANGED NotFm

----------------------------------------------------------------------------
(* Inputs of analyze_field_monitoring_data; the call, and the same call    *)
(* made again                                                              *)

DataTypes == {"ndvi", "soil_moisture", "temperature", "growth_stage", "canopy_cover"}

\* readings: a location and a value, either of which may be missing
PointKinds ==
    { [location |-> <<0, 0>>, value |-> R(2, 5)],
      [location |-> <<1, 0>>, value |-> Int2R(50)],
      EmptyDict }

BasePoint == [location |-> <<0, 0>>, value |-> Int2R(50)]
OutlierPoint == [location |-> <<1, 1>>, value |-> Int2R(500)]
ClusterSizes == {5, 10}

\* k readings of 50 followed by m readings of 500
Cluster(k, m) == [i \in 1..(k + m) |-> IF i <= k THEN BasePoint ELSE OutlierPoint]

\* 100 readings: 95 of 50 and 5 of 500
HundredReadings == Cluster(95, 5)

DataPointInputs ==
    SeqsUpTo(PointKinds, MaxPoints)
        \cup { Cluster(k, m) : k \in ClusterSizes, m \in 0..MaxOutliers }
        \cup { HundredReadings }

MonitoringDataInputs ==
    { t @@ p @@ d :
        t \in {EmptyDict} \cup { [type |-> x] : x \in DataTypes },
        p \in {EmptyDict} \cup { [data_points |-> x] : x \in DataPointInputs },
        d \in {EmptyDict, [date |-> -1]} }

MonIdle ==
    [pc |-> "idle", monitoring_data |-> EmptyDict,
     at |-> 0, result |-> Null, again_at |-> 0, again |-> Null]

AnalyzeMonitoring(monitoring_data) ==
    /\ mon.pc = "idle"
    /\ mon' = [mon EXCEPT !.pc = "returned",
                          !.monitoring_data = monitoring_data,
                          !.at = now,
                          !.result = analyze_field_monitoring_data(monitoring_data, now)]
    /\ UNCHANGED NotMon

AnalyzeMonitoringAgain ==
    /\ mon.pc = "returned"
    /\ mon' = [mon EXCEPT !.pc = "again",
                          !.again_at = now,
                          !.again = analyze_field_monitoring_data(mon.monitoring_data, now)]
    /\ UNCHANGED NotMon


----------------------------------------------------------------------------
(* Inputs of plan_variable_rate_application, and the call *)

\* management zones: an id and characteristics, either of which may be missing
ZoneKinds ==
    { [zone_id |-> "zone_1", characteristics |-> <<"poor_drainage", "high_water_retention">>],
      [zone_id |-> "zone_2", characteristics |-> <<"high_organic_matter", "good_drainage">>],
      [zone_id |-> "zone_3", characteristics |-> <<"good_drainage", "poor_drainage">>],
      EmptyDict }

ApplicationTypes == {"fertilizer", "pesticide", "seed", "water", "herbicide"}
TargetCrops == {"corn", "soybean", "wheat", "rice"}

\* fields of many zones, around the limits of the equipment tiers
ManyZoneSizes == {19, 20, 99, 100}
ManyZones(k) ==
    [i \in 1..k |-> [zone_id |-> "zone_1",
                     characteristics |-> <<"poor_drainage", "high_water_retention">>]]

ApplicationDataInputs ==
    { z @@ t @@ c :
        z \in {EmptyDict}
                 \cup { [field_zones |-> x] : x \in SeqsUpTo(ZoneKinds, MaxZones) },
        t \in {EmptyDict} \cup { [type |-> x] : x \in ApplicationTypes },
        c \in {EmptyDict} \cup { [crop_type |-> x] : x \in TargetCrops } }
    \cup
    \* many zones, with the crops whose total quantities fit the integers of
    \* the model checker
    { z @@ t @@ c :
        z \in { [field_zones |-> ManyZones(k)] : k \in ManyZoneSizes },
        t \in {EmptyDict} \cup { [type |-> x] : x \in ApplicationTypes },
        c \in {EmptyDict} \cup { [crop_type |-> x] : x \in {"corn", "rice"} } }

ApIdle == [pc |-> "idle", application_data |-> EmptyDict, result |-> Null]

PlanApplication(application_data) ==
    /\ ap.pc = "idle"
    /\ ap' = [pc |-> "returned",
              application_data |-> application_data,
              result |-> plan_variable_rate_application(application_data, now)]
    /\ UNCHANGED NotAp

\* The callers of generate_yield_prediction_map.  A call stops at each await
\* of its loop (line 180), where another call may run.
Callers == {1, 2}

\* a call: its position, its argument, its local variables (the index of the
\* next zone and yield_predictions), the rounding of its float comparisons
\* and the record it returned; `overlapped` remembers that another call was
\* in its loop when this one started
YpIdle ==
    [pc |-> "idle", field_data |-> EmptyDict, zone_index |-> 1,
     yield_predictions |-> <<>>, overlapped |-> FALSE, rounding |-> Null,
     result |-> Null]

\* lines 172-177: the call starts with an empty list of its own
YieldMapCall(c, field_data) ==
    /\ yp[c].pc = "idle"
    /\ yp' = [yp EXCEPT ![c] =
                 [YpIdle EXCEPT !.pc = "zones",
                                !.field_data = field_data,
                                !.overlapped = \E k \in Callers \ {c} : yp[k].pc = "zones"]]
    /\ UNCHANGED NotYp

\* A mutant of the loop body: yield_predictions is one list of the service,
\* to which every call in its loop appends.
predict_next_zone_shared(calls, c) ==
    LET call == calls[c]
        zone_prediction ==
            predict_zone_yield(Get(call.field_data, "management_zones", <<>>)[call.zone_index],
                               Get(call.field_data, "historical_yields", <<>>),
                               Get(call.field_data, "current_season", EmptyDict),
                               Get(call.field_data, "crop_type", "corn"))
    IN  [k \in DOMAIN calls |->
            IF calls[k].pc # "zones" THEN calls[k]
            ELSE [calls[k] EXCEPT
                     !.yield_predictions = Append(@, zone_prediction),
                     !.zone_index = IF k = c THEN @ + 1 ELSE @]]

\* the loop body (lines 179-183): the prediction of the next zone is
\* appended to the list of the call; when _predict_zone_yield raises, the
\* except clause (lines 214-216) ends the call with the error record
predict_next_zone(calls, c) ==
    LET call == calls[c]
        zone == Get(call.field_data, "management_zones", <<>>)[call.zone_index]
        zone_prediction ==
            predict_zone_yield(zone,
                               Get(call.field_data, "historical_yields", <<>>),
                               Get(call.field_data, "current_season", EmptyDict),
                               Get(call.field_data, "crop_type", "corn"))
    IN  IF get_raises(<<zone>>)
        THEN [calls EXCEPT
                 ![c].pc = "returned",
                 ![c].result =
                     [error |-> "Failed to generate yield prediction: AttributeError"]]
        ELSE [calls EXCEPT ![c].yield_predictions = Append(@, zone_prediction),
                           ![c].zone_index = @ + 1]

YieldMapZone(c) ==
    /\ yp[c].pc = "zones"
    /\ yp[c].zone_index <= Len(Get(yp[c].field_data, "management_zones", <<>>))
    /\ yp' = predict_next_zone(yp, c)
    /\ UNCHANGED NotYp

\* lines 185-211: after the last zone the record is built and returned
YieldMapReturn(c) ==
    /\ yp[c].pc = "zones"
    /\ yp[c].zone_index > Len(Get(yp[c].field_data, "management_zones", <<>>))
    /\ \E rounding \in RoundingPairs(yp[c].yield_predictions) :
          yp' = [yp EXCEPT ![c].pc = "returned",
                           ![c].rounding = rounding,
                           ![c].result =
                               return_yield_prediction(yp[c].field_data,
                                   yp[c].yield_predictions, now, rounding)]
    /\ UNCHANGED NotYp

RateEntries ==
    { [zone_id |-> "zone_1", application_rate |-> Int2R(r)] : r \in {0, 50, 90, 100, 110} }
        \cup { [zone_id |-> "zone_2"] }

RateMapInputs == SeqsUpTo(RateEntries, MaxRates)

FnIdle == [op |-> "idle", args |-> <<>>, result |-> Null]

CallApplicationRates(field_zones, app_type, crop) ==
    /\ fn.op = "idle"
    /\ fn' = [op |-> "generate_application_rates",
              args |-> <<field_zones, app_type, crop>>,
              result |-> generate_application_rates(field_zones, app_type, crop, <<>>)]
    /\ UNCHANGED NotFn

CallApplicationQuantities(rate_map) ==
    /\ fn.op = "idle"
    /\ fn' = [op |-> "calculate_application_quantities",
              args |-> <<rate_map>>,
              result |-> calculate_application_quantities(rate_map)]
    /\ UNCHANGED NotFn

CallApplicationCost(quantities, app_type) ==
    /\ fn.op = "idle"
    /\ fn' = [op |-> "calculate_application_cost",
              args |-> <<quantities, app_type>>,
              result |-> calculate_application_cost(quantities, app_type)]
    /\ UNCHANGED NotFn

CallOptimizationNotes(rate_map) ==
    /\ fn.op = "idle"
    /\ fn' = [op |-> "generate_optimization_notes",
              args |-> <<rate_map>>,
              result |-> generate_optimization_notes(rate_map)]
    /\ UNCHANGED NotFn

\* Inputs of _predict_zone_yield
HistoryInputs ==
    { <<>>, <<Int2R(9000)>>, <<Int2R(9000), Int2R(9500)>>,
      <<Int2R(9000), Int2R(9500), Int2R(8700), Int2R(10200)>> }
SeasonInputs ==
    { EmptyDict,
      [weather_impact |-> R(8, 10)],
      [weather_impact |-> R(12, 10),
       weather_conditions |-> [drought_risk |-> R(6, 10)],
       weather_risks |-> <<"Late frost">>,
       weather_certainty |-> R(9, 10)] }
YieldCrops == {"corn", "soybean", "wheat", "rice"}

CallPredictZoneYield(zone, historical_yields, current_season, crop_type) ==
    /\ fn.op = "idle"
    /\ fn' = [op |-> "predict_zone_yield",
              args |-> <<zone, historical_yields, current_season, crop_type>>,
              result |-> predict_zone_yield(zone, historical_yields,
                                            current_season, crop_type)]
    /\ UNCHANGED NotFn

\* Inputs of _create_yield_variability_map: zone predictions with whole
\* yields, on which the float mean, deviations and standard deviation of up
\* to four zones on a threshold are exact (no rounding)
PredictionKinds ==
    { [zone_id |-> "zone_1", predicted_yield_kg_ha |-> Int2R(y)] :
          y \in {3000, 4000, 5000} }
        \cup { [zone_id |-> "zone_2"] }
PredictionInputs == SeqsUpTo(PredictionKinds, MaxPredictions)
NoRounding(xs) == [i \in DOMAIN xs |-> 0]

CallVariabilityMap(yield_predictions) ==
    /\ fn.op = "idle"
    /\ fn' = [op |-> "create_yield_variability_map",
              args |-> <<yield_predictions>>,
              result |-> create_yield_variability_map(yield_predictions,
                             NoRounding(yield_predictions))]
    /\ UNCHANGED NotFn

\* Inputs of _analyze_drainage_patterns: the short lists of samples, and
\* lists of five, the shortest with a medium risk
DrainagePoints ==
    { [location |-> <<0, 0>>, elevation |-> Int2R(e)] : e \in {3, 4, 9, 10} }
        \cup { [location |-> <<60, 1>>] }
FiveSamples ==
    { [i \in 1..5 |-> [location |-> <<i, 0>>, elevation |-> Int2R(e[i])]] :
          e \in [1..5 -> {4, 9, 10}] }
DrainageInputs == SeqsUpTo(DrainagePoints, MaxElevations) \cup FiveSamples

CallDrainagePatterns(boundaries, elevation_data) ==
    /\ fn.op = "idle"
    /\ fn' = [op |-> "analyze_drainage_patterns",
              args |-> <<boundaries, elevation_data>>,
              result |-> analyze_drainage_patterns(boundaries, elevation_data)]
    /\ UNCHANGED NotFn

\* Inputs of _identify_spatial_patterns: the arbitrary collections, and four
\* readings on the corners of a unit square or all at one place
GridLocations == <<<<0, 0>>, <<0, 1>>, <<1, 0>>, <<1, 1>>>>
GridValues == {10, 20, 50}
GridInputs ==
    { [i \in 1..4 |-> [location |-> GridLocations[i], value |-> Int2R(v[i])]] :
          v \in [1..4 -> GridValues] }
        \cup { [i \in 1..4 |-> [location |-> <<1, 1>>, value |-> Int2R(v[i])]] :
                   v \in [1..4 -> {10, 50}] }
PatternInputs == DataPointInputs \cup GridInputs

CallSpatialPatterns(data_points) ==
    /\ fn.op = "idle"
    /\ fn' = [op |-> "identify_spatial_patterns",
              args |-> <<data_points>>,
              result |-> identify_spatial_patterns(data_points)]
    /\ UNCHANGED NotFn

\* Inputs of _detect_field_anomalies: the arbitrary collections and the
\* clusters, every collection of five readings of 0, 21 or 50, and the
\* collections in which one reading stands apart from the others
SpikeValues == {11, 21, 500}
FiveReadings ==
    { [i \in 1..5 |-> [location |-> <<i, 0>>, value |-> Int2R(v[i])]] :
          v \in [1..5 -> {0, 21, 50}] }
Spike(n, v) ==
    [i \in 1..n |-> [location |-> <<i, 0>>, value |-> Int2R(IF i = 2 THEN v ELSE 0)]]
AnomalyInputs ==
    DataPointInputs \cup FiveReadings
        \cup { Spike(n, v) : n \in 2..MaxReadings, v \in SpikeValues }

CallDetectAnomalies(data_points, data_type) ==
    /\ fn.op = "idle"
    /\ \E rounding \in AnomalyRoundings(data_points) :
          fn' = [op |-> "detect_field_anomalies",
                 args |-> <<data_points, data_type>>,
                 result |-> detect_field_anomalies_float(data_points, data_type, rounding)]
    /\ UNCHANGED NotFn

\* Inputs of generate_yield_prediction_map called alone
YieldMapInputs ==
    { z @@ s @@ c :
        z \in {EmptyDict}
                 \cup { [management_zones |-> x] : x \in SeqsUpTo(ZoneKinds, MaxZones) },
        s \in {EmptyDict} \cup { [current_season |-> x] : x \in SeasonInputs },
        c \in {EmptyDict} \cup { [crop_type |-> x] : x \in {"soybean", "rice"} } }

\* Inputs of _analyze_ndvi_data, _analyze_soil_moisture_data and
\* _analyze_temperature_data: readings on, between and beyond the limits of
\* the buckets, and readings without a value
Readings(values) ==
    SeqsUpTo({ [location |-> <<0, 0>>, value |-> v] : v \in values } \cup {EmptyDict},
             MaxPoints)
NdviReadings ==
    Readings({ R(k, 10) : k \in {2, 3, 4, 5, 6, 7, 8} })
MoistureReadings ==
    Readings({ Int2R(k) : k \in {10, 20, 50, 80, 90} })
TemperatureReadings ==
    Readings({ Int2R(k) : k \in {5, 10, 12, 15, 20, 30, 33, 35, 40} })

CallAnalyzeNdvi(data_points) ==
    /\ fn.op = "idle"
    /\ fn' = [op |-> "analyze_ndvi_data",
              args |-> <<data_points, <<>>>>,
              result |-> analyze_ndvi_data(data_points, <<>>)]
    /\ UNCHANGED NotFn

CallAnalyzeSoilMoisture(data_points) ==
    /\ fn.op = "idle"
    /\ fn' = [op |-> "analyze_soil_moisture_data",
              args |-> <<data_points, <<>>>>,
              result |-> analyze_soil_moisture_data(data_points, <<>>)]
    /\ UNCHANGED NotFn

CallAnalyzeTemperature(data_points) ==
    /\ fn.op = "idle"
    /\ fn' = [op |-> "analyze_temperature_data",
              args |-> <<data_points, <<>>>>,
              result |-> analyze_temperature_data(data_points, <<>>)]
    /\ UNCHANGED NotFn

\* Inputs of the public operations with a step that fails: a vertex without
\* longitude, and None in the place of a zone or of a reading
FailingFieldData ==
    { [boundaries |-> Polygon(3)], [boundaries |-> BadPolygon(3)] }
FailingApplicationData ==
    { [field_zones |-> <<EmptyDict>>],
      [field_zones |-> <<EmptyDict, Null>>, type |-> "water"] }
FailingMonitoringData ==
    { [data_points |-> <<BasePoint>>],
      [data_points |-> <<BasePoint, Null>>, type |-> "temperature"] }
FailingYieldMapData ==
    { [management_zones |-> <<EmptyDict>>],
      [management_zones |-> <<EmptyDict, Null, EmptyDict>>, crop_type |-> "wheat"] }

\* Inputs of calls running concurrently
ConcurrentFieldData ==
    { EmptyDict,
      [management_zones |->
           <<[zone_id |-> "zone_1", characteristics |-> <<"poor_drainage">>],
             [zone_id |-> "zone_2",
              characteristics |-> <<"high_organic_matter", "good_drainage">>]>>,
       crop_type |-> "corn"],
      [management_zones |-> <<[zone_id |-> "zone_3", characteristics |-> <<>>]>>,
       historical_yields |-> <<Int2R(9000), Int2R(9500)>>,
       current_season |-> [weather_impact |-> R(8, 10), weather_certainty |-> R(9, 10)],
       crop_type |-> "wheat"] }
ConcurrentMonitoringData ==
    { [type |-> "ndvi",
       data_points |-> <<[location |-> <<0, 0>>, value |-> R(2, 5)],
                         [location |-> <<1, 0>>, value |-> R(4, 5)]>>] }

OthersIdle ==
    /\ ap = ApIdle /\ yp = [c \in Callers |-> YpIdle] /\ fn = FnIdle
    /\ svc = ServiceTables

----------------------------------------------------------------------------
(* Specifications *)

RsIdle == [min_optimal |-> 1, max_optimal |-> 1, calls |-> <<>>]

\* the range-suitability function applied to drawn inputs
InitRange == now = 0 /\ RsInit /\ cy = CyIdle /\ fm = FmIdle /\ mon = MonIdle
    /\ OthersIdle
NextRange == \E value \in RangeValues : RangeSuitability(value)
SpecRange == InitRange /\ [][NextRange]_vars

\* crop-level yield prediction
InitYield == now = 0 /\ rs = RsIdle /\ cy = CyIdle /\ fm = FmIdle /\ mon = MonIdle
    /\ OthersIdle
NextYield ==
    \/ \E crop_type \in CropTypeInputs, size \in FieldSizes,
          planting_date \in PlantingDates, soil_data \in SoilDataInputs :
            PredictCall(crop_type, size, planting_date, soil_data)
    \/ \E t \in Temperatures, h \in Humidities : WeatherReturns(t, h)
    \/ \E soil_response \in SoilResponses : SoilReturns(soil_response)
    \/ Tick
SpecYield == InitYield /\ [][NextYield]_vars

\* field maps
InitField == now = 0 /\ rs = RsIdle /\ cy = CyIdle /\ fm = FmIdle /\ mon = MonIdle
    /\ OthersIdle
NextField ==
    \/ \E field_data \in FieldDataInputs : CreateFieldMap(field_data)
    \/ CreateFieldMapAgain
    \/ Tick
SpecField == InitField /\ [][NextField]_vars

InitMonitor == now = 0 /\ rs = RsIdle /\ cy = CyIdle /\ fm = FmIdle /\ mon = MonIdle
    /\ OthersIdle
NextMonitor ==
    \/ \E monitoring_data \in MonitoringDataInputs : AnalyzeMonitoring(monitoring_data)
    \/ AnalyzeMonitoringAgain
    \/ Tick
SpecMonitor == InitMonitor /\ [][NextMonitor]_vars

\* variable rate application planning
InitApplication ==
    /\ now = 0 /\ rs = RsIdle /\ cy = CyIdle /\ fm = FmIdle /\ mon = MonIdle
    /\ OthersIdle
NextApplication ==
    \/ \E application_data \in ApplicationDataInputs : PlanApplication(application_data)
    \/ Tick
SpecApplication == InitApplication /\ [][NextApplication]_vars

\* the helper methods of the application planner
InitApplicationHelpers ==
    /\ now = 0 /\ rs = RsIdle /\ cy = CyIdle /\ fm = FmIdle /\ mon = MonIdle
    /\ OthersIdle
NextApplicationHelpers ==
    \/ \E field_zones \in SeqsUpTo(ZoneKinds, MaxZones),
          app_type \in ApplicationTypes, crop \in TargetCrops :
            CallApplicationRates(field_zones, app_type, crop)
    \/ \E rate_map \in RateMapInputs : CallApplicationQuantities(rate_map)
    \/ \E rate_map \in RateMapInputs, app_type \in ApplicationTypes :
            CallApplicationCost(calculate_application_quantities(rate_map), app_type)
    \/ \E rate_map \in RateMapInputs : CallOptimizationNotes(rate_map)
SpecApplicationHelpers == InitApplicationHelpers /\ [][NextApplicationHelpers]_vars

\* one call of a helper of generate_yield_prediction_map
InitYieldMapHelpers ==
    /\ now = 0 /\ rs = RsIdle /\ cy = CyIdle /\ fm = FmIdle /\ mon = MonIdle
    /\ OthersIdle
NextYieldMapHelpers ==
    \/ \E zone \in ZoneKinds, historical_yields \in HistoryInputs,
          current_season \in SeasonInputs, crop_type \in YieldCrops :
            CallPredictZoneYield(zone, historical_yields, current_season, crop_type)
    \/ \E yield_predictions \in PredictionInputs : CallVariabilityMap(yield_predictions)
SpecYieldMapHelpers == InitYieldMapHelpers /\ [][NextYieldMapHelpers]_vars

\* calls of both services in progress at the same time: two calls of
\* generate_yield_prediction_map, one of predict_crop_yield, and a call of
\* analyze_field_monitoring_data (which has no await) between their steps
InitConcurrent ==
    /\ now = 0 /\ rs = RsIdle /\ cy = CyIdle /\ fm = FmIdle /\ mon = MonIdle
    /\ OthersIdle
NextConcurrent ==
    \/ \E c \in Callers, field_data \in ConcurrentFieldData : YieldMapCall(c, field_data)
    \/ \E c \in Callers : YieldMapZone(c)
    \/ \E c \in Callers : YieldMapReturn(c)
    \/ PredictCall(corn, 1, 0, Null)
    \/ WeatherReturns(Int2R(22), Int2R(70))
    \/ \E soil_response \in SoilResponses : SoilReturns(soil_response)
    \/ \E monitoring_data \in ConcurrentMonitoringData : AnalyzeMonitoring(monitoring_data)
SpecConcurrent == InitConcurrent /\ [][NextConcurrent]_vars

\* one call of a helper of create_field_map
InitFieldHelpers ==
    /\ now = 0 /\ rs = RsIdle /\ cy = CyIdle /\ fm = FmIdle /\ mon = MonIdle
    /\ OthersIdle
NextFieldHelpers ==
    \E boundaries \in {Polygon(0), Polygon(3)}, elevation_data \in DrainageInputs :
        CallDrainagePatterns(boundaries, elevation_data)
SpecFieldHelpers == InitFieldHelpers /\ [][NextFieldHelpers]_vars

\* generate_yield_prediction_map called once
InitYieldMap ==
    /\ now = 0 /\ rs = RsIdle /\ cy = CyIdle /\ fm = FmIdle /\ mon = MonIdle
    /\ OthersIdle
NextYieldMap ==
    \/ \E field_data \in YieldMapInputs : YieldMapCall(1, field_data)
    \/ YieldMapZone(1)
    \/ YieldMapReturn(1)
SpecYieldMap == InitYieldMap /\ [][NextYieldMap]_vars

\* the five public operations, each called once, with and without a step
\* that fails
InitFailures ==
    /\ now = 0 /\ rs = RsIdle /\ cy = CyIdle /\ fm = FmIdle /\ mon = MonIdle
    /\ OthersIdle
NextFailures ==
    \/ \E field_data \in FailingFieldData : CreateFieldMap(field_data)
    \/ \E application_data \in FailingApplicationData : PlanApplication(application_data)
    \/ \E monitoring_data \in FailingMonitoringData : AnalyzeMonitoring(monitoring_data)
    \/ \E field_data \in FailingYieldMapData : YieldMapCall(1, field_data)
    \/ YieldMapZone(1)
    \/ YieldMapReturn(1)
    \/ \E crop_type \in {corn, <<"m", "a", "i", "z", "e">>}, size \in {0, 1},
          soil_data \in {Null, [ph_level |-> R(65, 10)]} :
            PredictCall(crop_type, size, 0, soil_data)
    \/ WeatherReturns(Int2R(22), Int2R(70))
    \/ \E soil_response \in SoilResponses : SoilReturns(soil_response)
SpecFailures == InitFailures /\ [][NextFailures]_vars

\* one call of a helper of analyze_field_monitoring_data
InitMonitorHelpers ==
    /\ now = 0 /\ rs = RsIdle /\ cy = CyIdle /\ fm = FmIdle /\ mon = MonIdle
    /\ OthersIdle
NextMonitorHelpers ==
    \/ \E data_points \in PatternInputs : CallSpatialPatterns(data_points)
    \/ \E data_points \in AnomalyInputs, data_type \in DataTypes :
          CallDetectAnomalies(data_points, data_type)
    \/ \E data_points \in NdviReadings : CallAnalyzeNdvi(data_points)
    \/ \E data_points \in MoistureReadings : CallAnalyzeSoilMoisture(data_points)
    \/ \E data_points \in TemperatureReadings : CallAnalyzeTemperature(data_points)
SpecMonitorHelpers == InitMonitorHelpers /\ [][NextMonitorHelpers]_vars

----------------------------------------------------------------------------
(* Claims *)

InClosed(x, lo, hi) == RLe(lo, x) /\ RLe(x, hi)

\* C1: every prediction predict_crop_yield returns for a supported crop and a
\* field size > 0 has weather_impact in [0.3, 1.5], soil_impact in
\* [0.4, 1.3], confidence_score in [0, 0.95] and predicted_yield_kg >= 0.
C1_ImpactBounds ==
    (cy.pc = "returned" /\ cy.field_size_hectares > 0) =>
        /\ InClosed(cy.result.weather_impact_factor, R(3, 10), R(15, 10))
        /\ InClosed(cy.result.soil_impact_factor, R(4, 10), R(13, 10))
        /\ InClosed(cy.result.confidence_score, RZero, R(95, 100))
        /\ RLe(RZero, cy.result.predicted_yield_kg)

\* a prediction whose weather impact was raised to the lower clamp 0.3
C1_Witness ==
    /\ cy.pc = "returned"
    /\ cy.field_size_hectares > 0
    /\ cy.result.weather_factors.temperature_suitability = RZero
    /\ cy.result.weather_factors.humidity_suitability = RZero
    /\ cy.result.weather_impact_factor = R(3, 10)
    /\ RLt(RZero, cy.result.predicted_yield_kg)

\* C2: a call whose lower-cased crop type is not in the crop parameter table
\* raises at once: it is never found awaiting a lookup, it has made no
\* weather or soil lookup, it holds no prediction record and no crop
\* parameters were substituted.
C2_UnknownCropRaises ==
    (cy.pc # "idle" /\ cy.crop_type \notin DOMAIN crop_parameters) =>
        /\ cy.pc = "raised"
        /\ cy.error = "ValueError"
        /\ cy.lookups = <<>>
        /\ cy.weather_factors = Null
        /\ cy.crop_params = Null
        /\ cy.result = Null

\* the call for "soybean" (the table has "soybeans") has raised
C2_Witness ==
    /\ cy.pc = "raised"
    /\ cy.crop_type = <<"s", "o", "y", "b", "e", "a", "n">>
    /\ cy.error = "ValueError"
    /\ cy.lookups = <<>>

C3_Scenario ==
    /\ cy.pc = "returned"
    /\ cy.crop_type = corn
    /\ cy.field_size_hectares = 10
    /\ cy.result.weather_factors.average_temperature = Int2R(22)
    /\ cy.result.weather_factors.average_humidity = Int2R(70)
    /\ cy.result.soil_factors.ph_level = R(65, 10)
    /\ cy.result.soil_factors.nitrogen_level = "Medium"
    /\ cy.result.soil_factors.phosphorus_level = "Medium"
    /\ cy.result.soil_factors.potassium_level = "Medium"

\* C3: corn, 10 ha, 22 degrees, 70 % humidity, pH 6.5, nutrients all Medium:
\* predicted_yield_per_hectare lies strictly between 0.12 and 1.95 times the
\* base yield per hectare of corn, and confidence_score >= 0.7.
C3_CornScenario ==
    C3_Scenario =>
        LET base == Int2R(crop_parameters[corn].base_yield_per_hectare)
        IN  /\ RLt(RMul(R(12, 100), base), cy.result.predicted_yield_per_hectare)
            /\ RLt(cy.result.predicted_yield_per_hectare, RMul(R(195, 100), base))
            /\ RLe(R(7, 10), cy.result.confidence_score)

\* the scenario has returned: 5000 * 0.67 * 0.86 = 2881 kg/ha
C3_Witness ==
    /\ C3_Scenario
    /\ cy.result.predicted_yield_per_hectare = Int2R(2881)
    /\ cy.result.predicted_yield_kg = Int2R(28810)

NonNeg(i) == IF i < 0 THEN 0 ELSE i

\* C4: for 0 < min <= max, rangeSuitability is 1 inside [min, max],
\* 1 - (min - value)/min floored at 0 below it, 1 - (value - max)/max floored
\* at 0 above it, hence within [0, 1]; rangeSuitability(20, 15, 25) = 1 and
\* rangeSuitability(0, 15, 25) = 0.
C4_RangeSuitability ==
    \A i \in DOMAIN rs.calls :
        LET v == rs.calls[i].value
            res == rs.calls[i].result
            lo == rs.min_optimal
            hi == rs.max_optimal
        IN  (0 < lo /\ lo <= hi) =>
                /\ (lo <= v /\ v <= hi) => res = ROne
                \* 1 - (lo - v)/lo = v/lo
                /\ v < lo => res.n * lo = res.d * NonNeg(v)
                \* 1 - (v - hi)/hi = (2 hi - v)/hi
                /\ v > hi => res.n * hi = res.d * NonNeg(2 * hi - v)
                /\ InClosed(res, RZero, ROne)
                /\ (v = 20 /\ lo = 15 /\ hi = 25) => res = ROne
                /\ (v = 0 /\ lo = 15 /\ hi = 25) => res = RZero

\* rangeSuitability(20, 15, 25) and then rangeSuitability(0, 15, 25)
C4_Witness ==
    /\ rs.min_optimal = 15
    /\ rs.max_optimal = 25
    /\ Len(rs.calls) = 2
    /\ rs.calls[1] = [value |-> 20, result |-> ROne]
    /\ rs.calls[2] = [value |-> 0, result |-> RZero]

\* C5: for 0 < min <= max, of two values on the same side of the optimal
\* range the one farther from it has the result that is not larger.
C5_Monotonic ==
    \A i, j \in DOMAIN rs.calls :
        LET v1 == rs.calls[i].value
            v2 == rs.calls[j].value
            r1 == rs.calls[i].result
            r2 == rs.calls[j].result
        IN  (0 < rs.min_optimal /\ rs.min_optimal <= rs.max_optimal) =>
                /\ (v1 <= v2 /\ v2 <= rs.min_optimal) => RLe(r1, r2)
                /\ (rs.max_optimal <= v1 /\ v1 <= v2) => RLe(r2, r1)

\* two values below the range and two results that differ
C5_Witness ==
    /\ rs.min_optimal = 15
    /\ rs.max_optimal = 25
    /\ Len(rs.calls) = 2
    /\ rs.calls[1].value < rs.calls[2].value
    /\ rs.calls[2].value < rs.min_optimal
    /\ RLt(rs.calls[1].result, rs.calls[2].result)

ZoneIds(zones) == [i \in DOMAIN zones |-> zones[i].zone_id]

\* C6: the management zones are the four elevation zones, in their order,
\* when elevation data and soil samples are both non-empty, and the single
\* zone uniform when either is empty; the same field data passed again gives
\* the same zones.
C6_ManagementZones ==
    (fm.pc # "idle" /\ "field_map" \in DOMAIN fm.result) =>
        LET zones == fm.result.field_map.management_zones
            elevation_data == Get(fm.field_data, "elevation_data", <<>>)
            soil_samples == Get(fm.field_data, "soil_samples", <<>>)
        IN  /\ (elevation_data # <<>> /\ soil_samples # <<>>) =>
                   ZoneIds(zones) = <<"low_elevation", "medium_low_elevation",
                                      "medium_high_elevation", "high_elevation">>
            /\ (elevation_data = <<>> \/ soil_samples = <<>>) =>
                   ZoneIds(zones) = <<"uniform">>
            /\ fm.pc = "again" =>
                   /\ "field_map" \in DOMAIN fm.again
                   /\ fm.again.field_map.management_zones = zones

\* four zones were returned twice, at two different times
C6_Witness ==
    /\ fm.pc = "again"
    /\ "field_map" \in DOMAIN fm.result
    /\ "field_map" \in DOMAIN fm.again
    /\ Len(fm.result.field_map.management_zones) = 4
    /\ fm.again.field_map.management_zones = fm.result.field_map.management_zones
    /\ fm.again.field_map.created_at # fm.result.field_map.created_at

Degenerate(field_data) ==
    /\ Len(Get(field_data, "boundaries", <<>>)) < 3
    /\ Get(field_data, "elevation_data", <<>>) = <<>>
    /\ Get(field_data, "soil_samples", <<>>) = <<>>

\* C7: create_field_map on fewer than 3 boundary vertices and no elevation or
\* soil data returns a field map, not an error record: area 0, the single
\* uniform zone, drainage status no_elevation_data, the single default soil
\* zone.
C7_DegenerateFieldMap ==
    (fm.pc # "idle" /\ Degenerate(fm.field_data)) =>
        /\ DOMAIN fm.result = {"field_map", "recommendations"}
        /\ fm.result.field_map.area_hectares = RZero
        /\ ZoneIds(fm.result.field_map.management_zones) = <<"uniform">>
        /\ fm.result.field_map.drainage_patterns.status = "no_elevation_data"
        /\ fm.result.field_map.soil_zones =
               <<[zone |-> "default", soil_type |-> "unknown", management |-> "standard"]>>

\* a boundary of two vertices, nothing else
C7_Witness ==
    /\ fm.pc = "returned"
    /\ Degenerate(fm.field_data)
    /\ Len(Get(fm.field_data, "boundaries", <<>>)) = 2
    /\ fm.result.field_map.area_hectares = RZero

\* the values of the readings, the sum of the values and of their squares
ReadingValues(pts) == [i \in DOMAIN pts |-> Get(pts[i], "value", RZero)]
SumOf(xs) == RSum(xs)
SumOfSquares(xs) == RSum([i \in DOMAIN xs |-> RSq(xs[i])])

\* |xs[i] - mean| > k * stddev, with the population variance taken as
\* E[x^2] - E[x]^2 and both sides squared
Beyond(xs, i, k) ==
    LET n == Int2R(Len(xs))
        mean == RDiv(SumOf(xs), n)
        variance == RSub(RDiv(SumOfSquares(xs), n), RSq(mean))
    IN  RLt(RMul(Int2R(k * k), variance), RSq(RSub(xs[i], mean)))

C9_EmptyDataPoints ==
    (mon.pc # "idle" /\ Get(mon.monitoring_data, "data_points", <<>>) = <<>>) =>
        /\ DOMAIN mon.result = {"monitoring_analysis"}
        /\ LET r == mon.result.monitoring_analysis
           IN  /\ "status" \in DOMAIN r.analysis_results
               /\ r.analysis_results.status = "no_data"
               /\ r.anomalies_detected = <<>>
               /\ "status" \in DOMAIN r.spatial_patterns
               /\ r.spatial_patterns.status = "insufficient_data"

\* an empty collection of growth_stage readings was analysed
C9_Witness ==
    /\ mon.pc = "returned"
    /\ "data_points" \in DOMAIN mon.monitoring_data
    /\ mon.monitoring_data.data_points = <<>>
    /\ Get(mon.monitoring_data, "type", "ndvi") = "growth_stage"
    /\ mon.result.monitoring_analysis.analysis_results = [status |-> "no_data"]

\* both calls returned a monitoring_analysis
BothAnalysed ==
    /\ mon.pc = "again"
    /\ "monitoring_analysis" \in DOMAIN mon.result
    /\ "monitoring_analysis" \in DOMAIN mon.again

IntervalDays(data_type) ==
    CASE data_type = "ndvi" -> 14
      [] data_type = "soil_moisture" -> 7
      [] data_type = "temperature" -> 3
      [] data_type = "growth_stage" -> 10
      [] OTHER -> 7

Characteristics(zone) ==
    LET cs == Get(zone, "characteristics", <<>>) IN {cs[i] : i \in DOMAIN cs}

SupportedTypes == {"fertilizer", "pesticide", "seed", "water"}
SupportedCrops == {"corn", "soybean", "wheat"}

\* the reference rate of a supported combination, 100 otherwise
ReferenceRate(app_type, crop) ==
    IF app_type \in SupportedTypes /\ crop \in SupportedCrops
    THEN base_rates[app_type][crop]
    ELSE Int2R(100)

\* C12: every zone's rate is the base rate times the product of the
\* modifiers of all the characteristics the zone carries (poor_drainage 0.8,
\* good_drainage 1.1): a zone carrying both gets base_rate * 0.8 * 1.1.
C12_ModifiersCompose ==
    fn.op = "generate_application_rates" =>
        \A i \in DOMAIN fn.result :
            LET zone == fn.args[1][i]
                poor == IF "poor_drainage" \in Characteristics(zone) THEN R(8, 10) ELSE ROne
                good == IF "good_drainage" \in Characteristics(zone) THEN R(11, 10) ELSE ROne
            IN  fn.result[i].application_rate =
                    RMul(RMul(ReferenceRate(fn.args[2], fn.args[3]), poor), good)

\* the type or the crop of the plan is outside the reference table
Unsupported(application_data) ==
    \/ Get(application_data, "type", "fertilizer") \notin SupportedTypes
    \/ Get(application_data, "crop_type", "corn") \notin SupportedCrops

\* C13: for an application type or crop outside the reference table the plan
\* is returned, not an error record, and every zone's rate is 100 times the
\* modifier the zone gets in a supported combination.
C13_DefaultBaseRate ==
    (ap.pc = "returned" /\ Unsupported(ap.application_data)) =>
        /\ DOMAIN ap.result = {"application_plan", "optimization_notes"}
        /\ LET zones == Get(ap.application_data, "field_zones", <<>>)
               rate_map == ap.result.application_plan.rate_map
               supported == generate_application_rates(zones, "fertilizer", "corn", <<>>)
           IN  /\ Len(rate_map) = Len(zones)
               /\ \A i \in DOMAIN rate_map :
                     /\ RMul(rate_map[i].application_rate, Int2R(150))
                            = RMul(supported[i].application_rate, Int2R(100))
                     /\ rate_map[i].application_rate
                            \in {Int2R(80), Int2R(100), Int2R(110)}

\* a plan for an unknown product on an unknown crop, with a reduced-rate zone
C13_Witness ==
    /\ ap.pc = "returned"
    /\ Get(ap.application_data, "type", "fertilizer") = "herbicide"
    /\ Get(ap.application_data, "crop_type", "corn") = "rice"
    /\ Len(ap.result.application_plan.rate_map) = 2
    /\ ap.result.application_plan.rate_map[1].application_rate = Int2R(80)

\* C14: total_area is the number of entries of the rate map, average_rate
\* the sum of the rates over the number of entries (0 for an empty map), and
\* total_quantity the sum of the rates times total_area.
C14_ApplicationQuantities ==
    fn.op = "calculate_application_quantities" =>
        LET rate_map == fn.args[1]
            total == RSum([i \in DOMAIN rate_map |->
                              IF "application_rate" \in DOMAIN rate_map[i]
                              THEN rate_map[i].application_rate ELSE RZero])
        IN  /\ fn.result.total_area = Len(rate_map)
            /\ RMul(fn.result.average_rate, Int2R(Len(rate_map))) = total
            /\ rate_map = <<>> => fn.result.average_rate = RZero
            /\ fn.result.total_quantity = RMul(total, Int2R(Len(rate_map)))

\* two entries, rates 50 and 110: area 2, average 80, quantity 320
C14_Witness ==
    /\ fn.op = "calculate_application_quantities"
    /\ Len(fn.args[1]) = 2
    /\ fn.result.average_rate = Int2R(80)
    /\ fn.result.total_quantity = Int2R(320)

UnitCost(app_type) ==
    CASE app_type = "fertilizer" -> R(1, 2)
      [] app_type = "pesticide" -> Int2R(15)
      [] app_type = "seed" -> R(3, 1000)
      [] app_type = "water" -> R(1, 10)
      [] OTHER -> ROne

\* C15: product_cost is total_quantity times the unit cost of the type,
\* application_cost 25 times total_area, total_cost their sum, and
\* cost_per_hectare total_cost over total_area, over 1 when total_area is 0
\* (an empty plan costs 0 per hectare).
C15_ApplicationCost ==
    fn.op = "calculate_application_cost" =>
        LET quantities == fn.args[1]
            area == quantities.total_area
        IN  /\ fn.result.product_cost =
                   RMul(quantities.total_quantity, UnitCost(fn.args[2]))
            /\ fn.result.application_cost = Int2R(25 * area)
            /\ fn.result.total_cost =
                   RAdd(fn.result.product_cost, fn.result.application_cost)
            /\ RMul(fn.result.cost_per_hectare, Int2R(IF area = 0 THEN 1 ELSE area))
                   = fn.result.total_cost
            /\ area = 0 => fn.result.cost_per_hectare = RZero

\* pesticide on 3 hectares: the cost per hectare is a third of the total
C15_Witness ==
    /\ fn.op = "calculate_application_cost"
    /\ fn.args[2] = "pesticide"
    /\ fn.args[1].total_area = 3
    /\ fn.result.total_cost.n > 75
    /\ RMul(fn.result.cost_per_hectare, Int2R(3)) = fn.result.total_cost

\* the last four elements of a list
LastFour(xs) == SubSeq(xs, Len(xs) - 3, Len(xs))

\* C16: for every rate map, an empty map and a map with a zero rate
\* included, the notes are returned and end with the four standard notes;
\* the variability note is present iff the variance of the rates is > 100
\* and the multiple-passes note iff max rate / min rate > 2.
C16_OptimizationNotes ==
    fn.op = "generate_optimization_notes" =>
        /\ fn.result.raises = ""
        /\ Len(fn.result.notes) >= 4
        /\ LastFour(fn.result.notes) =
               <<"Monitor weather conditions before application",
                 "Ensure proper equipment calibration",
                 "Document actual application rates for future reference",
                 "Consider soil moisture conditions before application">>
        /\ LET rates == Rates(fn.args[1])
               n == Int2R(Len(rates))
               variance == RSub(RDiv(SumOfSquares(rates), n), RSq(RDiv(SumOf(rates), n)))
           IN  /\ Contains(fn.result.notes,
                           "High rate variability detected - ensure equipment calibration")
                      <=> (rates # <<>> /\ RLt(Int2R(100), variance))
               /\ Contains(fn.result.notes,
                           "Consider splitting application into multiple passes")
                      <=> (rates # <<>>
                           /\ RLt(RMul(Int2R(2), RMinSeq(rates)), RMaxSeq(rates)))

\* C17: for generic monitoring data with at least one point, data_quality is
\* limited iff the collection has fewer than 10 points; with 10 or more
\* points it is good.
C17_DataQuality ==
    ( /\ mon.pc # "idle"
      /\ Get(mon.monitoring_data, "type", "ndvi")
             \notin {"ndvi", "soil_moisture", "temperature", "growth_stage"}
      /\ Len(Get(mon.monitoring_data, "data_points", <<>>)) >= 1 ) =>
        LET n == Len(mon.monitoring_data.data_points)
            quality == mon.result.monitoring_analysis.analysis_results.data_quality
        IN  /\ quality = "limited" <=> n < 10
            /\ n >= 10 => quality = "good"

\* the z-score of yield y among yields xs compared with c (one of 1, 0, -1),
\* with the standard deviation as sqrt(E[x^2] - E[x]^2):
\* -1 below c, 0 equal to c, 1 above c
ZScoreAgainst(xs, y, c) ==
    LET n == Int2R(Len(xs))
        mean == RDiv(SumOf(xs), n)
        variance == RSub(RDiv(SumOfSquares(xs), n), RSq(mean))
        dev == RSub(y, mean)
        cmp == IF RLt(variance, RSq(dev)) THEN 1
               ELSE IF RSq(dev) = variance THEN 0 ELSE -1
    IN  IF c = 0 THEN Sign(dev)
        ELSE IF c = 1 THEN (IF dev.n > 0 THEN cmp ELSE -1)
        ELSE (IF dev.n < 0 THEN -cmp ELSE 1)

\* C18: on a field with a positive standard deviation every zone of the
\* variability map is classified by its z-score d: high_yield iff d > 1,
\* above_average iff 0 < d <= 1, below_average iff -1 <= d < 0, low_yield iff
\* d < -1; a zone exactly one standard deviation below the mean is
\* below_average.
C18_ZScoreClasses ==
    ( /\ fn.op = "create_yield_variability_map"
      /\ fn.args[1] # <<>>
      /\ fn.result.field_std.c # RZero ) =>
        LET xs == [i \in DOMAIN fn.args[1] |->
                      Get(fn.args[1][i], "predicted_yield_kg_ha", RZero)]
        IN  \A i \in DOMAIN xs :
                LET category == fn.result.zones[i].yield_category
                    vs1 == ZScoreAgainst(xs, xs[i], 1)
                    vs0 == ZScoreAgainst(xs, xs[i], 0)
                    vsm1 == ZScoreAgainst(xs, xs[i], -1)
                IN  /\ category = "high_yield" <=> vs1 = 1
                    /\ category = "above_average" <=> (vs0 = 1 /\ vs1 # 1)
                    /\ category = "below_average" <=> (vsm1 # -1 /\ vs0 = -1)
                    /\ category = "low_yield" <=> vsm1 = -1
                    /\ vsm1 = 0 => category = "below_average"

\* the multiplier the spec gives a characteristic
CharacteristicMultiplier(ch) ==
    IF ch = "good_drainage" THEN R(11, 10)
    ELSE IF ch = "poor_drainage" THEN R(9, 10)
    ELSE IF ch = "high_organic_matter" THEN R(105, 100)
    ELSE ROne

\* C19: predicted_yield_kg_ha is base_yield[crop] * zone_modifier *
\* weather_impact, and the zone_modifier reported in yield_factors is the
\* product of the multipliers of the zone's characteristics only (1.0 for a
\* zone without any), whatever the weather_impact.
C19_ZoneModifier ==
    fn.op = "predict_zone_yield" =>
        LET zone == fn.args[1]
            characteristics == Get(zone, "characteristics", <<>>)
            weather_impact == Get(fn.args[3], "weather_impact", ROne)
            base == IF fn.args[4] = "corn" THEN Int2R(10000)
                    ELSE IF fn.args[4] = "soybean" THEN Int2R(3000)
                    ELSE Int2R(5000)
            Product[k \in 0..Len(characteristics)] ==
                IF k = 0 THEN ROne
                ELSE RMul(Product[k - 1], CharacteristicMultiplier(characteristics[k]))
            factors == fn.result.yield_factors
        IN  /\ factors.zone_modifier = Product[Len(characteristics)]
            /\ factors.weather_impact = weather_impact
            /\ fn.result.predicted_yield_kg_ha =
                   RMul(RMul(base, factors.zone_modifier), factors.weather_impact)

\* the condition of a gradient along coordinate axis (1 latitude, 2
\* longitude): both groups split at the mean coordinate are non-empty and
\* their mean values differ by more than the standard deviation of all values
GradientCondition(pts, axis) ==
    LET n == Len(pts)
        Coord(i) == Get(pts[i], "location", <<0, 0>>)[axis]
        total == SumOf([i \in DOMAIN pts |-> Int2R(Coord(i))])
        xs == ReadingValues(pts)
        Upper == {i \in DOMAIN pts : Coord(i) * n > total.n}
        Lower == (DOMAIN pts) \ Upper
        GroupSum(S) == SumOf([i \in DOMAIN pts |-> IF i \in S THEN xs[i] ELSE RZero])
        variance == RSub(RDiv(SumOfSquares(xs), Int2R(n)), RSq(RDiv(SumOf(xs), Int2R(n))))
    IN  /\ Upper # {} /\ Lower # {}
        /\ LET diff == RSub(RDiv(GroupSum(Upper), Int2R(Cardinality(Upper))),
                            RDiv(GroupSum(Lower), Int2R(Cardinality(Lower))))
           IN  RLt(variance, RSq(diff))

\* C20: _identify_spatial_patterns returns status insufficient_data for fewer
\* than 4 points; for 4 or more points it reports a north-south (east-west)
\* gradient iff both groups split at the mean latitude (longitude) are
\* non-empty and the absolute difference of the group means exceeds the
\* standard deviation of all values.
C20_SpatialPatterns ==
    fn.op = "identify_spatial_patterns" =>
        LET pts == fn.args[1]
        IN  IF Len(pts) < 4
            THEN fn.result = [status |-> "insufficient_data"]
            ELSE /\ "status" \notin DOMAIN fn.result
                 /\ "north_south_gradient" \in DOMAIN fn.result
                        <=> GradientCondition(pts, 1)
                 /\ "east_west_gradient" \in DOMAIN fn.result
                        <=> GradientCondition(pts, 2)

\* four readings with a north-south gradient and no east-west gradient
C20_Witness ==
    /\ fn.op = "identify_spatial_patterns"
    /\ Len(fn.args[1]) = 4
    /\ DOMAIN fn.result = {"north_south_gradient"}
    /\ fn.result.north_south_gradient.detected

\* every finished call returned what the same call returns when it runs
\* alone, and the tables of the services are those the constructors set
ResultsAsAlone ==
    /\ svc = ServiceTables
    /\ \A c \in Callers :
          yp[c].pc = "returned" =>
              /\ yp[c].rounding \in RoundingPairs(predict_all_zones(yp[c].field_data))
              /\ yp[c].result =
                     generate_yield_prediction_map(yp[c].field_data,
                         yp[c].result.yield_prediction.prediction_date, yp[c].rounding)
    /\ cy.pc \in {"await_weather", "await_soil", "returned"} =>
          cy.crop_params = crop_parameters[cy.crop_type]
    /\ mon.pc = "returned" =>
          mon.result = analyze_field_monitoring_data(mon.monitoring_data, mon.at)

\* a step leaves the arguments of the calls made so far as they were passed
ArgumentsKept ==
    /\ \A c \in Callers :
          yp[c].pc # "idle" => yp'[c].field_data = yp[c].field_data
    /\ mon.pc # "idle" => mon'.monitoring_data = mon.monitoring_data
    /\ cy.pc # "idle" => cy'.soil_data = cy.soil_data

LimeAdvice == "Apply lime to increase soil pH for better nutrient availability"
SulfurAdvice == "Apply sulfur or organic matter to decrease soil pH"

\* C21 as stated: in the recommendations of a prediction the lime advice is
\* included whenever the soil pH is below the crop's optimal pH range and the
\* sulfur advice whenever it is above.
C21_PhAdviceOutOfRange ==
    cy.pc = "returned" =>
        LET ph == cy.result.soil_factors.ph_level
            optimal == crop_parameters[cy.crop_type].soil_ph_optimal
            advice == cy.result.recommendations
        IN  /\ RLt(ph, optimal[1]) => Contains(advice, LimeAdvice)
            /\ RLt(optimal[2], ph) => Contains(advice, SulfurAdvice)

\* C21 amended: the lime advice is included iff the pH is below 0.7 times the
\* lower end of the optimal range, the sulfur advice iff it is above 1.3
\* times the upper end (pH suitability below 0.7); a pH outside the range but
\* within these limits gets neither.
C21_PhAdviceThreshold ==
    cy.pc = "returned" =>
        LET ph == cy.result.soil_factors.ph_level
            optimal == crop_parameters[cy.crop_type].soil_ph_optimal
            advice == cy.result.recommendations
        IN  /\ Contains(advice, LimeAdvice) <=> RLt(ph, RMul(R(7, 10), optimal[1]))
            /\ Contains(advice, SulfurAdvice) <=> RLt(RMul(R(13, 10), optimal[2]), ph)

\* a prediction on a soil with pH 9.1, above the optimal range and below 1.3
\* times its upper end: no pH advice
C21_Witness ==
    /\ cy.pc = "returned"
    /\ cy.result.soil_factors.ph_level = R(91, 10)
    /\ RLt(crop_parameters[cy.crop_type].soil_ph_optimal[2], R(91, 10))
    /\ ~Contains(cy.result.recommendations, SulfurAdvice)
    /\ ~Contains(cy.result.recommendations, LimeAdvice)

\* the equipment the spec names for an application type and a size
EquipmentFor(app_type, size) ==
    LET tier == IF size < 20 THEN 1 ELSE IF size < 100 THEN 2 ELSE 3
    IN  IF app_type = "fertilizer"
        THEN <<"Broadcast spreader with GPS guidance",
               "Self-propelled applicator with variable rate",
               "High-capacity applicator with precision guidance">>[tier]
        ELSE IF app_type = "pesticide"
        THEN <<"ATV-mounted sprayer", "Self-propelled sprayer with boom",
               "High-clearance sprayer with GPS">>[tier]
        ELSE IF app_type = "seed"
        THEN <<"Precision planter", "Multi-row planter with GPS",
               "Large planter with variable rate seeding">>[tier]
        ELSE "Standard equipment"

\* C22: the equipment of a plan is that of the tier small for a size < 20,
\* medium for 20 <= size < 100 and large for size >= 100, Standard equipment
\* for a type without an equipment table, where the size is the number of
\* zones of the rate map.
C22_EquipmentTier ==
    (ap.pc = "returned" /\ "application_plan" \in DOMAIN ap.result) =>
        LET plan == ap.result.application_plan
        IN  /\ plan.total_quantities.total_area = Len(plan.rate_map)
            /\ Len(plan.rate_map) = Len(Get(ap.application_data, "field_zones", <<>>))
            /\ plan.equipment.recommended_equipment =
                   EquipmentFor(Get(ap.application_data, "type", "fertilizer"),
                                Len(plan.rate_map))

\* a pesticide plan for a field of exactly 20 zones: the medium tier
C22_Witness ==
    /\ ap.pc = "returned"
    /\ "application_plan" \in DOMAIN ap.result
    /\ Len(ap.result.application_plan.rate_map) = 20
    /\ ap.result.application_plan.equipment.recommended_equipment =
           "Self-propelled sprayer with boom"

\* the samples of pts (by index, in order) that satisfy a test on their
\* elevation, as <<location, elevation, risk>> triples
Listed(pts, Test(_), High(_)) ==
    LET Elev(i) == Get(pts[i], "elevation", RZero)
        chosen == {i \in DOMAIN pts : Test(Elev(i))}
        Nth[k \in 1..Cardinality(chosen)] ==
            CHOOSE i \in chosen : Cardinality({j \in chosen : j < i}) = k - 1
    IN  [k \in 1..Cardinality(chosen) |->
            <<Get(pts[Nth[k]], "location", <<0, 0>>), Elev(Nth[k]),
              IF High(Elev(Nth[k])) THEN "high" ELSE "medium">>]

\* C23: for non-empty elevation data the water-accumulation areas are exactly
\* the samples with elevation <= the 25th percentile (risk high iff <= the
\* 10th percentile, else medium), the erosion-risk areas exactly those with
\* elevation >= the 75th percentile (high iff >= the 90th), drainage_quality
\* is good iff max - min elevation > 5, and the lowest sample is a high-risk
\* water-accumulation area, the highest a high-risk erosion area.
C23_DrainagePatterns ==
    (fn.op = "analyze_drainage_patterns" /\ fn.args[2] # <<>>) =>
        LET pts == fn.args[2]
            es == [i \in DOMAIN pts |-> Get(pts[i], "elevation", RZero)]
            p10 == Percentile(es, 10)
            p25 == Percentile(es, 25)
            p75 == Percentile(es, 75)
            p90 == Percentile(es, 90)
            AtMost25(e) == RLe(e, p25)
            AtMost10(e) == RLe(e, p10)
            AtLeast75(e) == RLe(p75, e)
            AtLeast90(e) == RLe(p90, e)
            water == fn.result.water_accumulation_areas
            erosion == fn.result.erosion_risk_areas
            lowest == CHOOSE e \in {es[i] : i \in DOMAIN es} :
                          \A i \in DOMAIN es : RLe(e, es[i])
            highest == CHOOSE e \in {es[i] : i \in DOMAIN es} :
                           \A i \in DOMAIN es : RLe(es[i], e)
        IN  /\ [k \in DOMAIN water |->
                   <<water[k].location, water[k].elevation, water[k].risk_level>>]
                   = Listed(pts, AtMost25, AtMost10)
            /\ [k \in DOMAIN erosion |->
                   <<erosion[k].location, erosion[k].elevation, erosion[k].erosion_risk>>]
                   = Listed(pts, AtLeast75, AtLeast90)
            /\ fn.result.drainage_quality = "good" <=> RLt(Int2R(5), RSub(highest, lowest))
            /\ fn.result.drainage_quality \in {"good", "poor"}
            /\ \E k \in DOMAIN water :
                  water[k].elevation = lowest /\ water[k].risk_level = "high"
            /\ \E k \in DOMAIN erosion :
                  erosion[k].elevation = highest /\ erosion[k].erosion_risk = "high"

\* five samples with a medium-risk water-accumulation area, a medium-risk
\* erosion area and a spread of more than 5
C23_Witness ==
    /\ fn.op = "analyze_drainage_patterns"
    /\ Len(fn.args[2]) = 5
    /\ fn.result.drainage_quality = "good"
    /\ \E k \in DOMAIN fn.result.water_accumulation_areas :
          fn.result.water_accumulation_areas[k].risk_level = "medium"
    /\ \E k \in DOMAIN fn.result.erosion_risk_areas :
          fn.result.erosion_risk_areas[k].erosion_risk = "medium"

\* C24: in every prediction for a supported crop the weather impact is at
\* most 0.84 and the soil impact at most 0.96, the soil impact before
\* clamping is not below the lower clamp 0.4, and the predicted yield per
\* hectare is strictly below the crop's base yield per hectare.
C24_ImpactsBelowClamps ==
    cy.pc = "returned" =>
        LET soil_factors == cy.result.soil_factors
            unclamped ==
                RAdd(RAdd(RMul(R(3, 10), soil_factors.ph_suitability),
                          RMul(R(5, 10), soil_factors.soil_fertility_score)),
                     RMul(R(2, 10), soil_factors.drainage_quality))
        IN  /\ RLe(cy.result.weather_impact_factor, R(84, 100))
            /\ RLe(cy.result.soil_impact_factor, R(96, 100))
            /\ RLe(R(4, 10), unclamped)
            /\ RLt(cy.result.predicted_yield_per_hectare,
                   Int2R(crop_parameters[cy.crop_type].base_yield_per_hectare))

\* a prediction with both impacts at their largest values
C24_Witness ==
    /\ cy.pc = "returned"
    /\ cy.result.weather_impact_factor = R(84, 100)
    /\ cy.result.soil_impact_factor = R(96, 100)
    /\ RLt(RZero, cy.result.predicted_yield_per_hectare)

\* C25: _detect_field_anomalies returns an empty list for every collection of
\* at most 5 readings, and never reports severity high for a collection of at
\* most 10 readings.
C25_SmallCollections ==
    fn.op = "detect_field_anomalies" =>
        /\ Len(fn.args[1]) <= 5 => fn.result = <<>>
        /\ Len(fn.args[1]) <= 10 =>
               \A i \in DOMAIN fn.result : fn.result[i].severity # "high"

\* C26: every anomaly record of _detect_field_anomalies has its value
\* strictly outside its own expected_range, which is [mean - std, mean + std]
\* of the collection; when all values are equal no reading is reported.
C26_OutsideExpectedRange ==
    fn.op = "detect_field_anomalies" =>
        LET xs == ReadingValues(fn.args[1])
            n == Int2R(Len(xs))
            mean == RDiv(SumOf(xs), n)
            variance == RSub(RDiv(SumOfSquares(xs), n), RSq(mean))
        IN  /\ \A i \in DOMAIN fn.result :
                 LET a == fn.result[i]
                 IN  /\ a.expected_range[1] = Surd(mean, Int2R(-1), variance)
                     /\ a.expected_range[2] = Surd(mean, ROne, variance)
                     /\ \/ SurdGt(a.expected_range[1], a.value)
                        \/ SurdLt(a.expected_range[2], a.value)
            /\ (\A i, j \in DOMAIN xs : xs[i] = xs[j]) => fn.result = <<>>

\* one reading of 500 among seven of 0, between two and three standard
\* deviations from the mean 62.5, was reported with its range
C26_Witness ==
    /\ fn.op = "detect_field_anomalies"
    /\ fn.args[1] = Spike(8, 500)
    /\ Len(fn.result) = 1
    /\ fn.result[1].value = Int2R(500)
    /\ fn.result[1].severity = "medium"
    /\ fn.result[1].expected_range[2].a = R(125, 2)

\* C27: in every plan returned by plan_variable_rate_application each zone
\* rate is the base rate times 0.8, 1.0 or 1.1, so no rate is 0 and the
\* largest is at most 1.375 times the smallest; the note 'Consider splitting
\* application into multiple passes' is not among the optimization notes and
\* the call returns a plan, not the error of a failed division.
C27_RateRatioBounded ==
    ap.pc = "returned" =>
        /\ DOMAIN ap.result = {"application_plan", "optimization_notes"}
        /\ LET plan == ap.result.application_plan
               base == Get(Get(base_rates, plan.type, EmptyDict), plan.crop, Int2R(100))
               rate_map == plan.rate_map
               Rate(i) == rate_map[i].application_rate
           IN  /\ Len(rate_map) = Len(Get(ap.application_data, "field_zones", <<>>))
               /\ \A i \in DOMAIN rate_map :
                      /\ Rate(i) \in { RMul(base, R(8, 10)), base, RMul(base, R(11, 10)) }
                      /\ Rate(i) # RZero
               /\ \A i, j \in DOMAIN rate_map :
                      RLe(Rate(i), RMul(R(1375, 1000), Rate(j)))
        /\ ~Contains(ap.result.optimization_notes,
                     "Consider splitting application into multiple passes")

\* a plan with a poorly drained and a well drained zone was returned: the
\* rates are 120 and 165, exactly 1.375 apart
C27_Witness ==
    /\ ap.pc = "returned"
    /\ "application_plan" \in DOMAIN ap.result
    /\ Len(ap.result.application_plan.rate_map) = 2
    /\ ap.result.application_plan.rate_map[1].application_rate = Int2R(120)
    /\ ap.result.application_plan.rate_map[2].application_rate = Int2R(165)

\* the multipliers a zone can get from its characteristics
ZoneMultipliers ==
    { R(9, 10), R(945, 1000), ROne, R(105, 100), R(11, 10), R(1155, 1000) }

\* C28: in every result of generate_yield_prediction_map for a non-empty zone
\* list and a positive weather_impact, every zone yield is the base yield of
\* the crop times the weather_impact times a zone multiplier between 0.9 and
\* 1.155, the coefficient of variation of the zone yields is below 0.3, and
\* risk_assessment.management_risks is empty.
C28_NoManagementRisks ==
    \A c \in Callers :
        LET zones == Get(yp[c].field_data, "management_zones", <<>>)
            season == Get(yp[c].field_data, "current_season", EmptyDict)
            crop == Get(yp[c].field_data, "crop_type", "corn")
            weather_impact == Get(season, "weather_impact", ROne)
            base == IF crop = "corn" THEN Int2R(10000)
                    ELSE IF crop = "soybean" THEN Int2R(3000)
                    ELSE Int2R(5000)
        IN  (yp[c].pc = "returned" /\ zones # <<>> /\ weather_impact.n > 0) =>
                /\ DOMAIN yp[c].result = {"yield_prediction"}
                /\ LET preds == yp[c].result.yield_prediction.zone_predictions
                       \* the yields, divided by what the zones share
                       ms == [i \in DOMAIN preds |->
                                 RDiv(preds[i].predicted_yield_kg_ha,
                                      RMul(base, weather_impact))]
                       n == Int2R(Len(ms))
                       mean == RDiv(SumOf(ms), n)
                       variance == RSub(RDiv(SumOfSquares(ms), n), RSq(mean))
                   IN  /\ Len(preds) = Len(zones)
                       /\ \A i \in DOMAIN preds :
                              /\ preds[i].yield_factors.base_yield = base
                              /\ preds[i].yield_factors.weather_impact = weather_impact
                              /\ ms[i] \in ZoneMultipliers
                              /\ RLe(R(9, 10), ms[i]) /\ RLe(ms[i], R(1155, 1000))
                       /\ RLt(variance, RMul(R(9, 100), RSq(mean)))
                /\ yp[c].result.yield_prediction.risk_assessment.management_risks = <<>>

\* a map of a poorly drained zone and a well drained zone rich in organic
\* matter, the multipliers farthest apart, in a season of weather_impact 0.8
C28_Witness ==
    /\ yp[1].pc = "returned"
    /\ Get(yp[1].field_data, "current_season", EmptyDict) = [weather_impact |-> R(8, 10)]
    /\ Get(yp[1].field_data, "crop_type", "corn") = "corn"
    /\ Len(yp[1].result.yield_prediction.zone_predictions) = 2
    /\ yp[1].result.yield_prediction.zone_predictions[1].predicted_yield_kg_ha = Int2R(7200)
    /\ yp[1].result.yield_prediction.zone_predictions[2].predicted_yield_kg_ha = Int2R(9240)
    /\ yp[1].result.yield_prediction.risk_assessment.management_risks = <<>>

\* the number of readings (a missing value counts as 0) with k * value in
\* the interval from lo to hi, whose ends are left out where the flag is set
Between(pts, k, lo, lo_out, hi, hi_out) ==
    Cardinality({ i \in DOMAIN pts :
        LET v == Get(pts[i], "value", RZero)
        IN  /\ IF lo_out THEN lo * v.d < k * v.n ELSE lo * v.d <= k * v.n
            /\ IF hi_out THEN k * v.n < hi * v.d ELSE k * v.n <= hi * v.d })

\* C29: every reading is counted in at most one bucket of the analysis of
\* its type: the four ndvi counts add up to the number of readings, so do the
\* three soil moisture counts, and the temperature counts are those of the
\* readings above 35, below 10 and from 15 to 30, which add up to the number
\* of readings that are neither in [10, 15) nor in (30, 35].
C29_DisjointBuckets ==
    (fn.op \in {"analyze_ndvi_data", "analyze_soil_moisture_data",
                "analyze_temperature_data"} /\ fn.args[1] # <<>>) =>
        LET pts == fn.args[1]
            r == fn.result
        IN  /\ fn.op = "analyze_ndvi_data" =>
                  r.ndvi_distribution.poor + r.ndvi_distribution.fair
                      + r.ndvi_distribution.good + r.ndvi_distribution.excellent
                    = Len(pts)
            /\ fn.op = "analyze_soil_moisture_data" =>
                  r.dry_areas + r.optimal_areas + r.wet_areas = Len(pts)
            /\ fn.op = "analyze_temperature_data" =>
                  /\ r.heat_stress_areas = Between(pts, 1, 35, TRUE, 1000, FALSE)
                  /\ r.cold_stress_areas = Between(pts, 1, -1000, FALSE, 10, TRUE)
                  /\ r.optimal_areas = Between(pts, 1, 15, FALSE, 30, FALSE)
                  /\ r.heat_stress_areas + r.cold_stress_areas + r.optimal_areas
                       = Len(pts) - Between(pts, 1, 10, FALSE, 15, TRUE)
                                  - Between(pts, 1, 30, TRUE, 35, FALSE)

\* three temperature readings, 12, 33 and 35 degrees, were analysed: none is
\* in a bucket
C29_Witness ==
    /\ fn.op = "analyze_temperature_data"
    /\ Len(fn.args[1]) = 3
    /\ Get(fn.args[1][1], "value", RZero) = Int2R(12)
    /\ Get(fn.args[1][2], "value", RZero) = Int2R(33)
    /\ Get(fn.args[1][3], "value", RZero) = Int2R(35)
    /\ fn.result.heat_stress_areas = 0
    /\ fn.result.cold_stress_areas = 0
    /\ fn.result.optimal_areas = 0

\* a record whose only field is error
OnlyError(result) == DOMAIN result = {"error"}

\* C30: create_field_map, plan_variable_rate_application,
\* analyze_field_monitoring_data and generate_yield_prediction_map never end
\* with an exception: when a step fails the call returns a record whose only
\* field is error, and a returned record with an error has no other field;
\* predict_crop_yield ends every failure with the exception and no result.
C30_ErrorsReturnedOrRaised ==
    /\ fm.pc \in {"idle", "returned", "again"}
    /\ fm.pc # "idle" =>
          /\ field_area_raises(Get(fm.field_data, "boundaries", <<>>)) => OnlyError(fm.result)
          /\ "error" \in DOMAIN fm.result => OnlyError(fm.result)
    /\ ap.pc \in {"idle", "returned"}
    /\ ap.pc # "idle" =>
          /\ get_raises(Get(ap.application_data, "field_zones", <<>>)) => OnlyError(ap.result)
          /\ "error" \in DOMAIN ap.result => OnlyError(ap.result)
    /\ mon.pc \in {"idle", "returned", "again"}
    /\ mon.pc # "idle" =>
          /\ get_raises(Get(mon.monitoring_data, "data_points", <<>>)) => OnlyError(mon.result)
          /\ "error" \in DOMAIN mon.result => OnlyError(mon.result)
    /\ \A c \in Callers :
          /\ yp[c].pc \in {"idle", "zones", "returned"}
          /\ yp[c].pc = "returned" =>
                /\ get_raises(Get(yp[c].field_data, "management_zones", <<>>)) =>
                       OnlyError(yp[c].result)
                /\ "error" \in DOMAIN yp[c].result => OnlyError(yp[c].result)
    /\ cy.pc = "returned" => (cy.error = "" /\ "error" \notin DOMAIN cy.result)
    /\ cy.pc = "raised" => (cy.error # "" /\ cy.result = Null)
    /\ (cy.pc # "idle" /\ cy.crop_type \notin DOMAIN svc.crop_parameters) => cy.pc = "raised"
    /\ (cy.pc \in {"returned", "raised"} /\ cy.field_size_hectares = 0) => cy.pc = "raised"

\* each of the five operations was called with a step that fails: four
\* returned the error record, predict_crop_yield raised
C30_Witness ==
    /\ fm.pc = "returned" /\ OnlyError(fm.result)
    /\ ap.pc = "returned" /\ OnlyError(ap.result)
    /\ mon.pc = "returned" /\ OnlyError(mon.result)
    /\ yp[1].pc = "returned" /\ OnlyError(yp[1].result)
    /\ Len(yp[1].yield_predictions) = 1
    /\ cy.pc = "raised" /\ cy.error = "ZeroDivisionError"

====
